---- MODULE Spec2Model ----
(***************************************************************************)
(* InsightX AI: the Analysis Engine (backend/app/services/                 *)
(* analysis_service.py), its Computability Guard and the chat endpoint     *)
(* that drives them (backend/app/api/chat.py).                              *)
(*                                                                         *)
(* Conventions of the model                                                *)
(*   - Python None is the string None; "" is the empty Python string.      *)
(*   - SQL text is a TLA+ string built with \o exactly where the code      *)
(*     builds it with f-strings; next to the text the model carries what   *)
(*     DuckDB parses out of it (the conditions of the WHERE clause).       *)
(*   - counts are integers; two-decimal quantities (rates, amounts) are    *)
(*     integers in hundredths; a SQL NULL that pandas turns into NaN is    *)
(*     the flag nan of a value.                                            *)
(*   - dates are day numbers.                                              *)
(***************************************************************************)
EXTENDS Integers, Sequences, FiniteSets, TLC

VARIABLES
    file,            \* the CSV file at data_path: exists, columns, rows
    service,         \* the module global _analysis_service: None or "engine"
    conn,            \* AnalysisService.conn: None or "open"
    table,           \* the DuckDB table transactions: columns and rows
    loadState,       \* outcome of the last load_dataset call
    executed,        \* query texts handed to conn.execute by the last operation
    call,            \* the public call on the engine that just returned
    result,          \* what it returned
    chat,            \* the chat request in flight
    sessions,        \* SessionService._sessions: the OrderedDict, oldest first
    requests,        \* RateLimiter._requests: session id -> timestamps kept
    clock,           \* time.time(), in seconds
    past             \* what happened so far: accesses, turns added, calls allowed,
                     \* and the sessions the last access evicted

vars ==
    <<file, service, conn, table, loadState, executed, call, result, chat,
      sessions, requests, clock, past>>

\* The state of the session service and of the rate limiter.
serviceVars == <<sessions, requests, clock, past>>

None == "None"

\* ------------------------------------------------------------------ bounds

\* At most this many filter fields are set in an enumerated Filters value.
MaxSetFields == 2

\* The rows of the largest dataset: one day, one category each.
ManyRows == 21

\* ------------------------------------------------------------ str helpers

\* str.lower() on the strings the model uses.
Lower(s) ==
    CASE s = "Android" -> "android"
      [] s = "ANDROID" -> "android"
      [] s = "iOS" -> "ios"
      [] s = "Web" -> "web"
      [] s = "WiFi" -> "wifi"
      [] s = "4G" -> "4g"
      [] s = "5G" -> "5g"
      [] s = "3G" -> "3g"
      [] s = "Tablet" -> "tablet"
      [] s = "6G" -> "6g"
      [] s = "Failure_Rate" -> "failure_rate"
      [] s = "Volume" -> "volume"
      [] OTHER -> s

\* Python truthiness of an Optional[str].
Truthy(s) == s # None /\ s # ""

\* ", ".join(xs) / " AND ".join(xs) ...
RECURSIVE Join(_, _)
Join(sep, xs) ==
    IF xs = <<>> THEN ""
    ELSE IF Len(xs) = 1 THEN xs[1]
    ELSE xs[1] \o sep \o Join(sep, Tail(xs))

RECURSIVE SeqSum(_)
SeqSum(xs) == IF xs = <<>> THEN 0 ELSE xs[1] + SeqSum(Tail(xs))

\* ------------------------------------------------------------------- data

\* AnalysisService._required_columns
RequiredColumns ==
    {"transaction_id", "timestamp", "amount", "payment_method", "device",
     "state", "age_group", "network", "category", "status", "failure_code",
     "fraud_flag", "review_flag"}

\* "now" of the run, as a day number (datetime.now()).
Today == 100

Row(id, day, amt, dev, net, cat, st, code, fraud, review) ==
    [transaction_id |-> id, timestamp |-> day, amount |-> amt,
     payment_method |-> "UPI", device |-> dev, state |-> "Goa",
     age_group |-> "<25", network |-> net, category |-> cat,
     status |-> st, failure_code |-> code, fraud_flag |-> fraud,
     review_flag |-> review]

RowsA ==
    << Row("t1", 99, 100, "Android", "4G",   "Food",   "Success", None,      0, 0),
       Row("t2", 98, 300, "Android", "WiFi", "Travel", "Failed",  "TIMEOUT", 0, 1),
       Row("t3", 96, 200, "iOS",     "4G",   "Food",   "Failed",  "TIMEOUT", 1, 0),
       Row("t4", 80, 400, "iOS",     "5G",   "Others", "Success", None,      0, 0),
       Row("t5", 40, 500, "Web",     "WiFi", "Food",   "Failed",  "BANK",    0, 0) >>

RowsB ==
    << Row("u1", 99, 100, "Android", "4G", "Food", "Success", None, 0, 0),
       Row("u2", 97, 250, "iOS",     "4G", "Food", "Success", None, 0, 0) >>

\* A dataset with more distinct days, categories and failure codes than the
\* display cap of 20 groups: every third row failed, each with its own code.
RowsC ==
    [i \in 1..ManyRows |->
        Row("w" \o ToString(i), 70 + i, 10 * i, "Web", "WiFi", "C" \o ToString(i),
            IF i % 3 = 0 THEN "Failed" ELSE "Success",
            IF i % 3 = 0 THEN "E" \o ToString(i) ELSE None, 0, 0)]

\* The files data_path may name: absent, well-formed, or lacking a column.
Files ==
    {[exists |-> FALSE, columns |-> {}, rows |-> <<>>],
     [exists |-> TRUE, columns |-> RequiredColumns, rows |-> RowsA],
     [exists |-> TRUE, columns |-> RequiredColumns, rows |-> RowsB],
     [exists |-> TRUE, columns |-> RequiredColumns, rows |-> <<>>],
     [exists |-> TRUE, columns |-> RequiredColumns, rows |-> RowsC],
     [exists |-> TRUE, columns |-> RequiredColumns \ {"network"}, rows |-> RowsA],
     [exists |-> TRUE, columns |-> RequiredColumns \ {"status"}, rows |-> RowsB]}

NoTable == [columns |-> {}, rows |-> <<>>]

\* ---------------------------------------------------------------- filters

\* PrimaryFilters' fields in the order of filter_map.
FilterFields ==
    <<"device", "state", "age_group", "network", "category",
      "payment_method", "status">>

NoFilters == [f \in {FilterFields[i] : i \in 1..Len(FilterFields)} |-> None]

\* Values a caller (or the language model) may put in each field.
FieldValues(f) ==
    CASE f = "device" -> {"Android", "iOS", "android", "Tablet", ""}
      [] f = "network" -> {"4G", "6G"}
      [] f = "status" -> {"Failed"}
      [] f = "category" -> {"Food"}
      [] f = "state" -> {"Goa"}
      [] f = "age_group" -> {"<25"}
      [] f = "payment_method" -> {"UPI"}

SetFields(filters) == {f \in DOMAIN filters : filters[f] # None}

FieldSet == {FilterFields[i] : i \in 1..Len(FilterFields)}

\* Every Filters value with at most n set fields.
FiltersUpTo(n) ==
    UNION {
        {[f \in FieldSet |-> IF f \in S THEN g[f] ELSE None] :
            g \in {h \in [S -> UNION {FieldValues(f) : f \in S}] :
                      \A f \in S : h[f] \in FieldValues(f)}} :
        S \in {T \in SUBSET FieldSet : Cardinality(T) <= n}}

Filters == FiltersUpTo(MaxSetFields)

\* ------------------------------------------------------------ time window

\* strftime('%Y-%m-%d') of a day, and the date strings a caller may pass.
DateText(day) == "D" \o ToString(day)

Days == 0..Today

\* DuckDB's cast of a string literal to a timestamp: the day, or -1 when
\* the text is no date (a Conversion Error at execution).
ParseDate(s) ==
    IF \E d \in Days : DateText(d) = s
    THEN CHOOSE d \in Days : DateText(d) = s
    ELSE -1

NoTimeWindow == [period |-> None, from |-> None, to |-> None]

\* A from value that closes the quotes the resolver puts around it, adds a
\* statement of its own and comments out the rest of the line.
InjectedDate == DateText(97) \o "'; DELETE FROM transactions; --"

\* The time_window dicts of the model; None stands for "no dict at all",
\* which _apply_time_window treats like a dict with nothing in it.
TimeWindows ==
    {NoTimeWindow,
     [period |-> "last_7_days", from |-> None, to |-> None],
     [period |-> "last_90_days", from |-> None, to |-> None],
     [period |-> "this_year", from |-> None, to |-> None],
     [period |-> None, from |-> DateText(97), to |-> None],
     [period |-> None, from |-> None, to |-> DateText(45)],
     [period |-> "last_30_days", from |-> DateText(97), to |-> DateText(98)],
     [period |-> None, from |-> "yesterday", to |-> None],
     [period |-> None, from |-> InjectedDate, to |-> None]}

PeriodDays(period) ==
    CASE period = "last_7_days" -> 7
      [] period = "last_30_days" -> 30
      [] period = "last_90_days" -> 90
      [] OTHER -> 30

\* ------------------------------------------------------- predicate builder

\* One condition of a WHERE clause as DuckDB reads it: col op val, where a
\* bound condition has the placeholder ? in place of a value.
Cond(col, op, val, bound) == [col |-> col, op |-> op, val |-> val, bound |-> bound]

SetFieldSeq(filters) == SelectSeq(FilterFields, LAMBDA f : filters[f] # None)

\* A builder that takes the fields in alphabetical order.
_build_where_clause_sorted(filters) ==
    LET cols == SelectSeq(<<"age_group", "category", "device", "network",
                            "payment_method", "state", "status">>,
                          LAMBDA f : filters[f] # None)
        conditions == [i \in 1..Len(cols) |-> cols[i] \o " = ?"]
    IN  [text   |-> IF conditions # <<>> THEN Join(" AND ", conditions) ELSE "1=1",
         conds  |-> [i \in 1..Len(cols) |-> Cond(cols[i], "=", "?", TRUE)],
         params |-> [i \in 1..Len(cols) |-> filters[cols[i]]]]

\* AnalysisService._build_where_clause: (where, params)
_build_where_clause(filters) ==
    LET cols == SetFieldSeq(filters)
        conditions == [i \in 1..Len(cols) |-> cols[i] \o " = ?"]
    IN  [text   |-> IF conditions # <<>> THEN Join(" AND ", conditions) ELSE "1=1",
         conds  |-> [i \in 1..Len(cols) |-> Cond(cols[i], "=", "?", TRUE)],
         params |-> [i \in 1..Len(cols) |-> filters[cols[i]]]]

\* base_where += f" AND timestamp {op} '{value}'"
AddBound(where, op, value) ==
    [where EXCEPT !.text = @ \o " AND timestamp " \o op \o " '" \o value \o "'",
                  !.conds = Append(@, Cond("timestamp", op, value, FALSE))]

AddBoundIf(present, where, op, value) ==
    IF present THEN AddBound(where, op, value) ELSE where

\* A resolver in which an explicit from takes the place of the relative bound.
_apply_time_window_replacing(base_where, time_window) ==
    IF time_window = NoTimeWindow THEN base_where
    ELSE AddBoundIf(Truthy(time_window.to),
            AddBoundIf(Truthy(time_window.from),
                AddBoundIf(Truthy(time_window.period) /\ ~Truthy(time_window.from),
                           base_where, ">=",
                           DateText(Today - PeriodDays(time_window.period))),
                ">=", time_window.from),
            "<=", time_window.to)

\* AnalysisService._apply_time_window: the extended predicate (its second
\* return value, params, is always the empty list).
_apply_time_window(base_where, time_window) ==
    IF time_window = NoTimeWindow THEN base_where
    ELSE AddBoundIf(Truthy(time_window.to),
            AddBoundIf(Truthy(time_window.from),
                AddBoundIf(Truthy(time_window.period), base_where, ">=",
                           DateText(Today - PeriodDays(time_window.period))),
                ">=", time_window.from),
            "<=", time_window.to)

\* ----------------------------------------------------------------- DuckDB

\* A query as the engine hands it to DuckDB: its text, and what DuckDB reads
\* in it: whether it parses, the conditions of its WHERE clause, the columns
\* it names outside them.
Query(text, wellformed, conds, cols) ==
    [text |-> text, wellformed |-> wellformed, conds |-> conds, cols |-> cols]

Placeholders(conds) == SelectSeq(conds, LAMBDA c : c.bound)

CondCols(conds) == {conds[i].col : i \in 1..Len(conds)}

\* The conditions with the k-th placeholder replaced by the k-th parameter.
RECURSIVE Resolve(_, _)
Resolve(conds, params) ==
    IF conds = <<>> THEN <<>>
    ELSE IF conds[1].bound
         THEN <<[conds[1] EXCEPT !.val = params[1], !.bound = FALSE]>>
              \o Resolve(Tail(conds), Tail(params))
         ELSE <<conds[1]>> \o Resolve(Tail(conds), params)

\* What DuckDB reads of a value written between quotes into the text: the
\* string literal, which ends at the first quote, and the statements that
\* follow it up to the end of the line.
Literal(val) == IF val = InjectedDate THEN DateText(97) ELSE val
Smuggled(val) == IF val = InjectedDate THEN <<"DELETE">> ELSE <<>>

\* The statements a text holds after the query, as its conditions bring them.
RECURSIVE Trailing(_)
Trailing(conds) ==
    IF conds = <<>> THEN <<>>
    ELSE (IF conds[1].bound THEN <<>> ELSE Smuggled(conds[1].val)) \o Trailing(Tail(conds))

\* The predicate ends its line of the text without starting a comment, so
\* that the lines of the query after it (GROUP BY, LIMIT, UNION ALL) still
\* belong to the query; behind a comment they are a statement that does not
\* parse.
Closed(where) == Trailing(where.conds) = <<>>

BadDate(c) == c.col = "timestamp" /\ ParseDate(Literal(c.val)) = -1

\* The exception DuckDB raises for execute(query, params) on a table, or None.
ExecError(tbl, q, params) ==
    IF ~q.wellformed
    THEN "Parser Error: syntax error"
    ELSE IF ~((q.cols \cup CondCols(q.conds)) \subseteq tbl.columns)
    THEN "Binder Error: Referenced column not found in FROM clause"
    ELSE IF Len(Placeholders(q.conds)) # Len(params)
    THEN "Invalid Input Error: Values were not provided for the prepared statement parameters"
    ELSE IF \E i \in 1..Len(q.conds) : BadDate(q.conds[i])
    THEN "Conversion Error: invalid timestamp field format"
    ELSE None

Holds(row, c) ==
    CASE c.op = "="  -> row[c.col] = c.val
      [] c.op = ">=" -> row[c.col] >= ParseDate(Literal(c.val))
      [] c.op = "<=" -> row[c.col] <= ParseDate(Literal(c.val))

\* The rows of the table that satisfy the WHERE clause.
Matching(tbl, q, params) ==
    LET cs == Resolve(q.conds, params)
    IN  SelectSeq(tbl.rows, LAMBDA r : \A i \in 1..Len(cs) : Holds(r, cs[i]))

\* str(e) of the IndexError (a KeyError where the rows are read by name) of
\* an operation that reads its columns in the rows of another statement.
WrongRows == "tuple index out of range"

\* self.conn.execute(query).fetchone() / .fetchdf() and the reading of the
\* rows: every call site passes the text alone, without the parameters the
\* Predicate Builder returned. DuckDB runs every statement of the text and
\* gives the rows of the last one.
ConnExecuteError(tbl, q) ==
    IF ExecError(tbl, q, <<>>) # None THEN ExecError(tbl, q, <<>>)
    ELSE IF Trailing(q.conds) # <<>> THEN WrongRows
    ELSE None
ConnExecuteRows(tbl, q) == Matching(tbl, q, <<>>)

\* The table after DuckDB has run the statements: DELETE FROM transactions
\* leaves no row.
Written(tbl, statements) ==
    IF statements # <<>> THEN [tbl EXCEPT !.rows = <<>>] ELSE tbl

\* ROUND(a / b, 0) for a >= 0, b > 0 (half away from zero).
RoundDiv(a, b) == (2 * a + b) \div (2 * b)

Amounts(rows) == [i \in 1..Len(rows) |-> rows[i].amount]
Failed(rows) == SelectSeq(rows, LAMBDA r : r.status = "Failed")

\* The aggregation expressions of the engine.
ExprCount == "COUNT(*)"
ExprAvg == "ROUND(AVG(amount), 2)"
ExprSum == "ROUND(SUM(amount), 2)"
ExprFailureRate ==
    "ROUND(100.0 * SUM(CASE WHEN status = 'Failed' THEN 1 ELSE 0 END) / NULLIF(COUNT(*), 0), 2)"

ExprCols(expr) ==
    CASE expr = ExprCount -> {}
      [] expr = ExprFailureRate -> {"status"}
      [] OTHER -> {"amount"}

\* The value of an aggregation expression over rows: a count in units, the
\* others in hundredths; null is SQL NULL (an aggregate over no row).
Eval(expr, rows) ==
    CASE expr = ExprCount -> [v |-> Len(rows), null |-> FALSE]
      [] expr = ExprAvg ->
            IF rows = <<>> THEN [v |-> 0, null |-> TRUE]
            ELSE [v |-> RoundDiv(100 * SeqSum(Amounts(rows)), Len(rows)), null |-> FALSE]
      [] expr = ExprSum ->
            IF rows = <<>> THEN [v |-> 0, null |-> TRUE]
            ELSE [v |-> 100 * SeqSum(Amounts(rows)), null |-> FALSE]
      [] expr = ExprFailureRate ->
            IF rows = <<>> THEN [v |-> 0, null |-> TRUE]
            ELSE [v |-> RoundDiv(10000 * Len(Failed(rows)), Len(rows)), null |-> FALSE]

\* ---------------------------------------------------------------- results

Nothing == <<>>
Some(v) == <<v>>

NoCalc == [numerator |-> Nothing, denominator |-> Nothing, sample_size |-> Nothing]

\* schemas.NumberDetail; nan: raw_value is float('nan').
\* shown: a second number the formatted value string carries, if any.
NumberDetail(label, raw_value, nan, calculation) ==
    [label |-> label, raw_value |-> raw_value, nan |-> nan,
     calculation |-> calculation, shown |-> Nothing]

\* schemas.ChartData; NoChart is chart_data=None.
NoChart == [type |-> None, data |-> <<>>]
ChartData(type, data) == [type |-> type, data |-> data]
ChartDataPoint(x, y, nan) == [x |-> x, y |-> y, nan |-> nan]

\* schemas.AnalysisResult
AnalysisResult(success, metric, numbers, query_executed, chart_data, error) ==
    [success |-> success, metric |-> metric, numbers |-> numbers,
     query_executed |-> query_executed, chart_data |-> chart_data, error |-> error]

\* The result every operation returns when self.conn is None.
NotLoaded(metric) ==
    [result   |-> AnalysisResult(FALSE, metric, <<>>, "N/A", NoChart, "Dataset not loaded"),
     executed |-> <<>>, written |-> <<>>]

\* An operation without its except branch: the exception leaves the call.
Propagated(metric, q, error, ran) ==
    [result |-> [raised |-> error], executed |-> ran,
     written |-> IF error = WrongRows THEN Trailing(q.conds) ELSE <<>>]

\* An except branch that returns the rows gathered so far beside the error.
FailureKeepingNumbers(metric, q, error, ran) ==
    [result   |-> AnalysisResult(FALSE, metric,
                      <<[label |-> "partial", raw_value |-> 0, nan |-> FALSE,
                         calculation |-> NoCalc, shown |-> Nothing]>>,
                      q.text, NoChart, error),
     executed |-> ran,
     written |-> IF error = WrongRows THEN Trailing(q.conds) ELSE <<>>]

\* The except branch of an operation: query.strip() and str(e). written:
\* the statements DuckDB ran after the query, when the error is that of
\* reading their rows.
Failure(metric, q, error, ran) ==
    [result   |-> AnalysisResult(FALSE, metric, <<>>, q.text, NoChart, error),
     executed |-> ran,
     written |-> IF error = WrongRows THEN Trailing(q.conds) ELSE <<>>]

\* A success result that reports the last query run instead of the main one.
SuccessWithLastQuery(metric, numbers, q, chart, ran) ==
    [result   |-> AnalysisResult(TRUE, metric, numbers, ran[Len(ran)], chart, None),
     executed |-> ran, written |-> <<>>]

Success(metric, numbers, q, chart, ran) ==
    [result   |-> AnalysisResult(TRUE, metric, numbers, q.text, chart, None),
     executed |-> ran, written |-> <<>>]

TableName == "transactions"

\* ---------------------------------------------------- compute_failure_rate

\* The predicate of an operation: the Predicate Builder's, extended by the
\* Time Window Resolver (lines 183-185 and their like in every operation).
Where(filters, time_window) ==
    _apply_time_window(_build_where_clause(filters), time_window)

\* try: self.conn.execute(query) ... except Exception as e: the failure
\* result with the query text and str(e), or None when the query runs.
TryExecute(metric, tbl, query) ==
    Failure(metric, query, ConnExecuteError(tbl, query), <<query.text>>)

FailureRateQuery(where) ==
    Query("SELECT COUNT(*) as total_transactions, "
            \o "SUM(CASE WHEN status = 'Failed' THEN 1 ELSE 0 END) as failed_transactions, "
            \o ExprFailureRate \o " as failure_rate_pct FROM " \o TableName
            \o " WHERE " \o where.text,
          TRUE, where.conds, {"status"})

SampleQuery(where) ==
    Query("SELECT transaction_id, timestamp, amount, device, state, category, failure_code FROM "
            \o TableName \o " WHERE " \o where.text \o " AND status = 'Failed' LIMIT 5",
          Closed(where), Append(where.conds, Cond("status", "=", "Failed", FALSE)),
          {"transaction_id", "timestamp", "amount", "device", "state",
           "category", "failure_code"})

OrZero(value) == IF value.null THEN 0 ELSE value.v

\* lines 201-245: the three numbers of a failure-rate result
FailureRateNumbers(rows) ==
    <<NumberDetail("Failure Rate", OrZero(Eval(ExprFailureRate, rows)), FALSE,
          [numerator |-> Some(Len(Failed(rows))), denominator |-> Some(Len(rows)),
           sample_size |-> Nothing]),
      NumberDetail("Total Transactions", Len(rows), FALSE, NoCalc),
      NumberDetail("Failed Transactions", Len(Failed(rows)), FALSE, NoCalc)>>

\* lines 199-253: the try block of compute_failure_rate
FailureRateRun(tbl, query, sample_query) ==
    IF ConnExecuteError(tbl, query) # None
    THEN TryExecute("failure_rate", tbl, query)
    ELSE IF ConnExecuteError(tbl, sample_query) # None
    THEN Failure("failure_rate", query, ConnExecuteError(tbl, sample_query),
                 <<query.text, sample_query.text>>)
    ELSE Success("failure_rate", FailureRateNumbers(ConnExecuteRows(tbl, query)),
                 query, NoChart, <<query.text, sample_query.text>>)

FailureRateWhere(tbl, where) ==
    FailureRateRun(tbl, FailureRateQuery(where), SampleQuery(where))

\* compute_failure_rate without its "if not self.conn" guard.
compute_failure_rate_unguarded(cn, tbl, filters, time_window) ==
    FailureRateWhere(tbl, Where(filters, time_window))

\* AnalysisService.compute_failure_rate
compute_failure_rate(cn, tbl, filters, time_window) ==
    IF cn = None THEN NotLoaded("failure_rate")
    ELSE FailureRateWhere(tbl, Where(filters, time_window))

\* ------------------------------------------------------------ aggregate

\* metric.replace("_", " ").title()
Title(metric) ==
    CASE metric = "failure_rate" -> "Failure Rate"
      [] metric = "Failure_Rate" -> "Failure Rate"
      [] metric = "volume" -> "Volume"
      [] metric = "count" -> "Count"
      [] metric = "avg_amount" -> "Avg Amount"
      [] metric = "avg_transaction_amount" -> "Avg Transaction Amount"
      [] metric = "total_amount" -> "Total Amount"
      [] metric = "failure_codes" -> "Failure Codes"
      [] metric = "fraud_rate" -> "Fraud Rate"
      [] metric = "review_rate" -> "Review Rate"
      [] metric = "executive_summary" -> "Executive Summary"
      [] metric = "bogus_metric" -> "Bogus Metric"
      [] OTHER -> metric

\* "{expr} as {metric}" parses when the metric is usable as a column alias.
ValidAlias(metric) == metric # ""

\* dict.get(key, default) on a map given as a set of <<key, value>> pairs.
Get(map, key, default) ==
    IF \E kv \in map : kv[1] = key
    THEN (CHOOSE kv \in map : kv[1] = key)[2]
    ELSE default

Keys(map) == {kv[1] : kv \in map}

\* metric_expr_map of aggregate
AggregateExprMap ==
    {<<"volume", ExprCount>>, <<"count", ExprCount>>,
     <<"avg_amount", ExprAvg>>, <<"total_amount", ExprSum>>,
     <<"avg_transaction_amount", ExprAvg>>, <<"failure_rate", ExprFailureRate>>}

\* metric_expr_map of compare_segments
CompareExprMap ==
    {<<"failure_rate", ExprFailureRate>>, <<"avg_amount", ExprAvg>>,
     <<"volume", ExprCount>>, <<"total_amount", ExprSum>>}

\* metric_expr_map of time_series
TimeSeriesExprMap ==
    {<<"volume", ExprCount>>, <<"count", ExprCount>>,
     <<"avg_amount", ExprAvg>>, <<"total_amount", ExprSum>>,
     <<"failure_rate", ExprFailureRate>>}

\* metric_expr_map.get(metric.lower(), "COUNT(*)")
MetricExpr(map, metric) == Get(map, Lower(metric), ExprCount)

\* The group key of a row: " - ".join(str(row[col]) for col in by)
KeyOf(row, by) == Join(" - ", [i \in 1..Len(by) |-> row[by[i]]])

\* The distinct keys of rows, in order of first appearance.
RECURSIVE DistinctKeys(_, _, _)
DistinctKeys(rows, by, seen) ==
    IF rows = <<>> THEN <<>>
    ELSE IF KeyOf(rows[1], by) \in seen
         THEN DistinctKeys(Tail(rows), by, seen)
         ELSE <<KeyOf(rows[1], by)>>
              \o DistinctKeys(Tail(rows), by, seen \cup {KeyOf(rows[1], by)})

\* Insert g into a sequence sorted by v descending, after its equals.
RECURSIVE InsertDesc(_, _)
InsertDesc(g, sorted) ==
    IF sorted = <<>> THEN <<g>>
    ELSE IF g.v > sorted[1].v THEN <<g>> \o sorted
    ELSE <<sorted[1]>> \o InsertDesc(g, Tail(sorted))

\* Groups left in the order the scan met them.
Unsorted(gs) == gs

\* ORDER BY v DESC
RECURSIVE SortDesc(_)
SortDesc(gs) ==
    IF gs = <<>> THEN <<>>
    ELSE InsertDesc(gs[Len(gs)], SortDesc(SubSeq(gs, 1, Len(gs) - 1)))

\* LIMIT n
Limit(xs, n) == SubSeq(xs, 1, IF Len(xs) < n THEN Len(xs) ELSE n)

GroupOf(key, value) == [key |-> key, v |-> OrZero(value)]

MembersOf(rows, by, key) == SelectSeq(rows, LAMBDA r : KeyOf(r, by) = key)

GroupsOf(rows, by, expr, keys) ==
    [i \in 1..Len(keys) |-> GroupOf(keys[i], Eval(expr, MembersOf(rows, by, keys[i])))]

\* GROUP BY by: one [key, v] per distinct key.
GroupBy(rows, by, expr) == GroupsOf(rows, by, expr, DistinctKeys(rows, by, {}))

\* LIMIT 20 of the grouped aggregation
GroupLimit == 20

SeqToSet(xs) == {xs[i] : i \in 1..Len(xs)}

GroupedQuery(metric, metric_expr, group_cols, by, where) ==
    Query("SELECT " \o group_cols \o ", " \o metric_expr \o " as " \o metric
            \o " FROM " \o TableName \o " WHERE " \o where.text
            \o " GROUP BY " \o group_cols
            \o " ORDER BY " \o metric \o " DESC LIMIT 20",
          ValidAlias(metric) /\ Closed(where), where.conds,
          ExprCols(metric_expr) \cup SeqToSet(by))

UngroupedQuery(metric, metric_expr, where) ==
    Query("SELECT " \o metric_expr \o " as " \o metric
            \o " FROM " \o TableName \o " WHERE " \o where.text,
          ValidAlias(metric), where.conds, ExprCols(metric_expr))

\* lines 323-344: one NumberDetail and one bar per group
GroupedResult(metric, query, groups) ==
    Success(metric,
        [i \in 1..Len(groups) |-> NumberDetail(groups[i].key, groups[i].v, FALSE, NoCalc)],
        query,
        ChartData("bar",
            [i \in 1..Len(groups) |-> ChartDataPoint(groups[i].key, groups[i].v, FALSE)]),
        <<query.text>>)

\* lines 345-351
UngroupedResult(metric, query, value) ==
    Success(metric, <<NumberDetail(Title(metric), OrZero(value), FALSE, NoCalc)>>,
            query, NoChart, <<query.text>>)

\* lines 316-368: the try block of aggregate
AggregateRun(tbl, metric, metric_expr, by, query) ==
    IF ConnExecuteError(tbl, query) # None
    THEN TryExecute(metric, tbl, query)
    ELSE IF by # <<>>
    THEN GroupedResult(metric, query,
            Limit(SortDesc(GroupBy(ConnExecuteRows(tbl, query), by, metric_expr)),
                  GroupLimit))
    ELSE UngroupedResult(metric, query, Eval(metric_expr, ConnExecuteRows(tbl, query)))

AggregateWhere(tbl, metric, metric_expr, by, where) ==
    AggregateRun(tbl, metric, metric_expr, by,
        IF by # <<>>
        THEN GroupedQuery(metric, metric_expr, Join(", ", by), by, where)
        ELSE UngroupedQuery(metric, metric_expr, where))

\* AnalysisService.aggregate; by is a sequence of columns, <<>> for None.
aggregate(cn, tbl, metric, by, filters, time_window) ==
    IF cn = None THEN NotLoaded(metric)
    ELSE AggregateWhere(tbl, metric, MetricExpr(AggregateExprMap, metric), by,
                        Where(filters, time_window))

\* ------------------------------------------------------- compare_segments

\* A segment dict is a sequence of <<column, value>> pairs.
SegmentConds(segment) ==
    Join(" AND ", [i \in 1..Len(segment) |->
                      segment[i][1] \o " = '" \o segment[i][2] \o "'"])

SegmentParsed(segment) ==
    [i \in 1..Len(segment) |-> Cond(segment[i][1], "=", segment[i][2], FALSE)]

SegmentLabel(segment) ==
    Join(" & ", [i \in 1..Len(segment) |-> segment[i][1] \o ": " \o segment[i][2]])

\* One SELECT of the comparison: a segment's rows under the base predicate.
\* An empty segment dict leaves "... AND " with nothing after it.
SegmentQuery(label, segment, metric, metric_expr, base_where) ==
    Query("SELECT '" \o label \o "' as segment, " \o metric_expr \o " as " \o metric
            \o ", COUNT(*) as sample_size FROM " \o TableName
            \o " WHERE " \o base_where.text \o " AND " \o SegmentConds(segment),
          ValidAlias(metric) /\ segment # <<>> /\ Closed(base_where),
          base_where.conds \o SegmentParsed(segment), ExprCols(metric_expr))

UnionAll(qa, qb) ==
    Query(qa.text \o " UNION ALL " \o qb.text, qa.wellformed /\ qb.wellformed,
          qa.conds \o qb.conds, qa.cols \cup qb.cols)

SegmentNumber(metric, segment, value, size) ==
    NumberDetail(Title(metric) \o " (" \o SegmentLabel(segment) \o ")",
                 value.v, value.null, [NoCalc EXCEPT !.sample_size = Some(size)])

\* round(a / b) for b > 0 and a of either sign (half away from zero).
RoundDivSigned(a, b) == IF a >= 0 THEN RoundDiv(a, b) ELSE 0 - RoundDiv(0 - a, b)

\* pct_diff = (diff / val_b * 100) if val_b != 0 else 0, as the value string
\* shows it with one decimal (in tenths of a percent); Nothing when it is NaN.
PctDiff(val_a, val_b) ==
    IF val_b.null THEN Nothing
    ELSE IF val_b.v = 0 THEN Some(0)
    ELSE IF val_a.null THEN Nothing
    ELSE Some(RoundDivSigned(1000 * (val_a.v - val_b.v), val_b.v))

\* A difference taken the other way round, with A as the denominator.
DifferenceReversed(val_a, val_b) ==
    [label |-> "Difference",
     raw_value |-> IF val_a.null \/ val_b.null THEN 0 ELSE val_b.v - val_a.v,
     nan |-> val_a.null \/ val_b.null, calculation |-> NoCalc,
     shown |-> PctDiff(val_b, val_a)]

\* diff = val_a - val_b, NaN when either is
Difference(val_a, val_b) ==
    [NumberDetail("Difference",
                  IF val_a.null \/ val_b.null THEN 0 ELSE val_a.v - val_b.v,
                  val_a.null \/ val_b.null, NoCalc)
        EXCEPT !.shown = PctDiff(val_a, val_b)]

\* lines 438-485
CompareResult(metric, query, segment_a, segment_b, val_a, val_b, size_a, size_b) ==
    Success(metric,
        <<SegmentNumber(metric, segment_a, val_a, size_a),
          SegmentNumber(metric, segment_b, val_b, size_b),
          Difference(val_a, val_b)>>,
        query,
        ChartData("bar",
            <<ChartDataPoint(SegmentLabel(segment_a), val_a.v, val_a.null),
              ChartDataPoint(SegmentLabel(segment_b), val_b.v, val_b.null)>>),
        <<query.text>>)

CompareRows(metric, metric_expr, query, segment_a, segment_b, rows_a, rows_b) ==
    CompareResult(metric, query, segment_a, segment_b,
                  Eval(metric_expr, rows_a), Eval(metric_expr, rows_b),
                  Len(rows_a), Len(rows_b))

\* lines 434-493: the try block of compare_segments
CompareRun(tbl, metric, metric_expr, segment_a, segment_b, qa, qb, query) ==
    IF ConnExecuteError(tbl, query) # None
    THEN TryExecute(metric, tbl, query)
    ELSE CompareRows(metric, metric_expr, query, segment_a, segment_b,
                     ConnExecuteRows(tbl, qa), ConnExecuteRows(tbl, qb))

CompareQueries(tbl, metric, metric_expr, segment_a, segment_b, qa, qb) ==
    CompareRun(tbl, metric, metric_expr, segment_a, segment_b, qa, qb, UnionAll(qa, qb))

CompareWhere(tbl, metric, metric_expr, segment_a, segment_b, base_where) ==
    CompareQueries(tbl, metric, metric_expr, segment_a, segment_b,
        SegmentQuery("Segment A", segment_a, metric, metric_expr, base_where),
        SegmentQuery("Segment B", segment_b, metric, metric_expr, base_where))

\* AnalysisService.compare_segments
compare_segments(cn, tbl, segment_a, segment_b, metric, filters, time_window) ==
    IF cn = None THEN NotLoaded(metric)
    ELSE CompareWhere(tbl, metric, MetricExpr(CompareExprMap, metric),
                      segment_a, segment_b, Where(filters, time_window))

\* ------------------------------------------------------------ time_series

\* DATE_TRUNC(period, date_only) on day numbers: weeks of 7, months of 30 days.
Bucket(day, period) ==
    CASE period = "week" -> day - (day % 7)
      [] period = "month" -> day - (day % 30)
      [] OTHER -> day

\* The place of a group value in ORDER BY (the order of its text).
StrRank(s) ==
    CASE s = "Android" -> 1
      [] s = "Web" -> 2
      [] s = "iOS" -> 3
      [] OTHER -> 0

RECURSIVE InsertAsc(_, _)
InsertAsc(g, sorted) ==
    IF sorted = <<>> THEN <<g>>
    ELSE IF g.ord < sorted[1].ord THEN <<g>> \o sorted
    ELSE <<sorted[1]>> \o InsertAsc(g, Tail(sorted))

\* ORDER BY time_period, group
RECURSIVE SortAsc(_)
SortAsc(gs) ==
    IF gs = <<>> THEN <<>>
    ELSE InsertAsc(gs[Len(gs)], SortAsc(SubSeq(gs, 1, Len(gs) - 1)))

\* The (bucket, group) pair of a row; the group is None without group_by.
BucketOf(row, period, group_by) ==
    <<Bucket(row.timestamp, period), IF Truthy(group_by) THEN row[group_by] ELSE None>>

\* The (bucket, group) pairs of rows, in order of first appearance.
RECURSIVE DistinctBuckets(_, _, _, _)
DistinctBuckets(rows, period, group_by, seen) ==
    IF rows = <<>> THEN <<>>
    ELSE IF BucketOf(rows[1], period, group_by) \in seen
         THEN DistinctBuckets(Tail(rows), period, group_by, seen)
         ELSE <<BucketOf(rows[1], period, group_by)>>
              \o DistinctBuckets(Tail(rows), period, group_by,
                                 seen \cup {BucketOf(rows[1], period, group_by)})

\* numbers[:20]
DisplayLimit == 20

TimeExpr(period) ==
    CASE period = "week" -> "DATE_TRUNC('week', date_only)"
      [] period = "month" -> "DATE_TRUNC('month', date_only)"
      [] OTHER -> "date_only"

TimeSeriesQuery(metric, metric_expr, time_expr, group_by, where) ==
    IF Truthy(group_by)
    THEN Query("SELECT " \o time_expr \o " as time_period, " \o group_by \o ", "
                 \o metric_expr \o " as " \o metric \o " FROM " \o TableName
                 \o " WHERE " \o where.text
                 \o " GROUP BY " \o time_expr \o ", " \o group_by
                 \o " ORDER BY time_period, " \o group_by,
               ValidAlias(metric) /\ Closed(where), where.conds,
               ExprCols(metric_expr) \cup {"date_only", group_by})
    ELSE Query("SELECT " \o time_expr \o " as time_period, "
                 \o metric_expr \o " as " \o metric \o " FROM " \o TableName
                 \o " WHERE " \o where.text
                 \o " GROUP BY " \o time_expr \o " ORDER BY time_period",
               ValidAlias(metric) /\ Closed(where), where.conds,
               ExprCols(metric_expr) \cup {"date_only"})

\* One row of the time series: its place in the order, time_val, label, value.
PointOf(b, group_by, value) ==
    [ord |-> b[1] * 10 + StrRank(b[2]),
     time_val |-> DateText(b[1]),
     label |-> IF Truthy(group_by) THEN DateText(b[1]) \o " (" \o b[2] \o ")"
               ELSE DateText(b[1]),
     v |-> OrZero(value)]

PointsOf(rows, period, group_by, metric_expr, bs) ==
    [i \in 1..Len(bs) |->
        PointOf(bs[i], group_by,
            Eval(metric_expr,
                 SelectSeq(rows, LAMBDA r : BucketOf(r, period, group_by) = bs[i])))]

\* lines 569-606: every point goes to the chart, the first 20 to numbers
TimeSeriesResult(metric, query, points) ==
    Success(metric,
        Limit([i \in 1..Len(points) |->
                  NumberDetail(points[i].label, points[i].v, FALSE, NoCalc)],
              DisplayLimit),
        query,
        ChartData("line",
            [i \in 1..Len(points) |->
                ChartDataPoint(points[i].time_val, points[i].v, FALSE)]),
        <<query.text>>)

TimeSeriesRows(metric, metric_expr, period, group_by, query, rows) ==
    TimeSeriesResult(metric, query,
        SortAsc(PointsOf(rows, period, group_by, metric_expr,
                         DistinctBuckets(rows, period, group_by, {}))))

\* lines 565-614: the try block of time_series
TimeSeriesRun(tbl, metric, metric_expr, period, group_by, query) ==
    IF ConnExecuteError(tbl, query) # None
    THEN TryExecute(metric, tbl, query)
    ELSE TimeSeriesRows(metric, metric_expr, period, group_by, query,
                        ConnExecuteRows(tbl, query))

TimeSeriesWhere(tbl, metric, metric_expr, period, group_by, where) ==
    TimeSeriesRun(tbl, metric, metric_expr, period, group_by,
        TimeSeriesQuery(metric, metric_expr, TimeExpr(period), group_by, where))

\* AnalysisService.time_series, with time_col left at its default date_only.
time_series(cn, tbl, metric, period, filters, time_window, group_by) ==
    IF cn = None THEN NotLoaded(metric)
    ELSE TimeSeriesWhere(tbl, metric, MetricExpr(TimeSeriesExprMap, metric), period,
                         group_by, Where(filters, time_window))

\* ---------------------------------------------------- get_top_failure_codes

\* COALESCE(failure_code, 'Unknown')
CodeOf(row) == IF row.failure_code = None THEN "Unknown" ELSE row.failure_code

RECURSIVE DistinctCodes(_, _)
DistinctCodes(rows, seen) ==
    IF rows = <<>> THEN <<>>
    ELSE IF CodeOf(rows[1]) \in seen THEN DistinctCodes(Tail(rows), seen)
    ELSE <<CodeOf(rows[1])>> \o DistinctCodes(Tail(rows), seen \cup {CodeOf(rows[1])})

FailureCodesQuery(where, limit) ==
    Query("SELECT COALESCE(failure_code, 'Unknown') as failure_code, COUNT(*) as count, "
            \o "ROUND(100.0 * COUNT(*) / SUM(COUNT(*)) OVER (), 2) as percentage FROM "
            \o TableName \o " WHERE " \o where.text \o " AND status = 'Failed'"
            \o " GROUP BY failure_code ORDER BY count DESC LIMIT " \o ToString(limit),
          Closed(where), Append(where.conds, Cond("status", "=", "Failed", FALSE)),
          {"failure_code"})

\* A code's count and its percentage (hundredths) of all failed rows.
CodeCount(code, n, total) == [key |-> code, v |-> n, pct |-> RoundDiv(10000 * n, total)]

CodeCounts(rows, codes) ==
    [i \in 1..Len(codes) |->
        CodeCount(codes[i], Len(SelectSeq(rows, LAMBDA r : CodeOf(r) = codes[i])), Len(rows))]

\* lines 652-680; the percentage is the number shown beside the count
FailureCodesResult(query, top) ==
    Success("failure_codes",
        [i \in 1..Len(top) |->
            [NumberDetail(top[i].key, top[i].v, FALSE, NoCalc)
                EXCEPT !.shown = Some(top[i].pct)]],
        query,
        ChartData("bar",
            [i \in 1..Len(top) |-> ChartDataPoint(top[i].key, top[i].v, FALSE)]),
        <<query.text>>)

FailureCodesRows(query, rows, limit) ==
    FailureCodesResult(query,
        Limit(SortDesc(CodeCounts(rows, DistinctCodes(rows, {}))), limit))

\* lines 648-688: the try block of get_top_failure_codes
FailureCodesRun(tbl, query, limit) ==
    IF ConnExecuteError(tbl, query) # None
    THEN TryExecute("failure_codes", tbl, query)
    ELSE FailureCodesRows(query, ConnExecuteRows(tbl, query), limit)

\* AnalysisService.get_top_failure_codes
get_top_failure_codes(cn, tbl, filters, time_window, limit) ==
    IF cn = None THEN NotLoaded("failure_codes")
    ELSE FailureCodesRun(tbl, FailureCodesQuery(Where(filters, time_window), limit), limit)

\* ---------------------------------------------------- get_executive_summary

\* The share n / total left as a fraction, not multiplied by 100.
Share(n, total, scale) == RoundDiv(scale * n, total)

\* ROUND(100.0 * n / NULLIF(COUNT(*), 0), digits) in units of 1/scale.
Rate(n, total, scale) == RoundDiv(100 * scale * n, total)

AlwaysTrue == [text |-> "1=1", conds |-> <<>>, params |-> <<>>]

SummaryQuery(where) ==
    Query("SELECT COUNT(*) as total_transactions, ROUND(SUM(amount), 2) as total_volume, "
            \o "ROUND(AVG(amount), 2) as avg_transaction_amount, "
            \o ExprFailureRate \o " as failure_rate, "
            \o "ROUND(100.0 * SUM(CASE WHEN fraud_flag = 1 THEN 1 ELSE 0 END) / NULLIF(COUNT(*), 0), 4) as fraud_rate, "
            \o "ROUND(100.0 * SUM(CASE WHEN review_flag = 1 THEN 1 ELSE 0 END) / NULLIF(COUNT(*), 0), 2) as review_rate FROM "
            \o TableName \o " WHERE " \o where.text,
          TRUE, where.conds, {"amount", "status", "fraud_flag", "review_flag"})

\* lines 723-754: the six numbers (the fraud rate in ten-thousandths)
SummaryNumbers(rows) ==
    <<NumberDetail("Total Transactions", Len(rows), FALSE, NoCalc),
      NumberDetail("Total Volume", Eval(ExprSum, rows).v, FALSE, NoCalc),
      NumberDetail("Average Transaction", Eval(ExprAvg, rows).v, FALSE, NoCalc),
      NumberDetail("Failure Rate", Rate(Len(Failed(rows)), Len(rows), 100), FALSE, NoCalc),
      NumberDetail("Fraud Rate",
                   Rate(Len(SelectSeq(rows, LAMBDA r : r.fraud_flag = 1)), Len(rows), 10000),
                   FALSE, NoCalc),
      NumberDetail("Review Rate",
                   Rate(Len(SelectSeq(rows, LAMBDA r : r.review_flag = 1)), Len(rows), 100),
                   FALSE, NoCalc)>>

\* Over no row SUM and AVG are NULL, and formatting None with ",.2f" raises
\* TypeError inside the try block.
SummaryRows(query, rows) ==
    IF rows = <<>>
    THEN Failure("executive_summary", query,
                 "unsupported format string passed to NoneType.__format__",
                 <<query.text>>)
    ELSE Success("executive_summary", SummaryNumbers(rows), query, NoChart,
                 <<query.text>>)

\* lines 719-770: the try block of get_executive_summary
SummaryRun(tbl, query) ==
    IF ConnExecuteError(tbl, query) # None
    THEN TryExecute("executive_summary", tbl, query)
    ELSE SummaryRows(query, ConnExecuteRows(tbl, query))

\* AnalysisService.get_executive_summary
get_executive_summary(cn, tbl, time_window) ==
    IF cn = None THEN NotLoaded("executive_summary")
    ELSE SummaryRun(tbl, SummaryQuery(_apply_time_window(AlwaysTrue, time_window)))

\* ------------------------------------------------------ Computability Guard

\* supported_metrics (a Python set: the reason lists its names in some order).
SupportedMetrics ==
    <<"failure_rate", "volume", "count", "avg_amount", "avg_transaction_amount",
      "total_amount", "failure_codes", "fraud_rate", "review_rate",
      "executive_summary">>

ValidDevices == <<"android", "ios", "web">>
ValidNetworks == <<"4g", "5g", "wifi", "3g">>

\* ", ".join(xs), as the pieces of the text
RECURSIVE Listed(_)
Listed(xs) ==
    IF xs = <<>> THEN <<>>
    ELSE IF Len(xs) = 1 THEN <<xs[1]>>
    ELSE <<xs[1], ", ">> \o Listed(Tail(xs))

\* A Guard that checks the filter values but not the metric name.
is_metric_computable_any_metric(intent) ==
    IF /\ Truthy(intent.primary_filters.device)
       /\ Lower(intent.primary_filters.device) \notin SeqToSet(ValidDevices)
    THEN <<FALSE, <<"Unknown device type: ", intent.primary_filters.device,
                    ". Valid options: ">> \o Listed(ValidDevices)>>
    ELSE IF /\ Truthy(intent.primary_filters.network)
            /\ Lower(intent.primary_filters.network) \notin SeqToSet(ValidNetworks)
    THEN <<FALSE, <<"Unknown network type: ", intent.primary_filters.network,
                    ". Valid options: ">> \o Listed(ValidNetworks)>>
    ELSE <<TRUE, <<>>>>

\* AnalysisService.is_metric_computable: (can_compute, reason). The reason
\* is the sequence of the pieces its f-string joins; "" is <<>>.
is_metric_computable(intent) ==
    IF Truthy(intent.metric) /\ Lower(intent.metric) \notin SeqToSet(SupportedMetrics)
    THEN <<FALSE, <<"Metric '", intent.metric, "' is ", "not supported",
                    ". Available metrics: ">> \o Listed(SupportedMetrics)>>
    ELSE IF /\ Truthy(intent.primary_filters.device)
            /\ Lower(intent.primary_filters.device) \notin SeqToSet(ValidDevices)
    THEN <<FALSE, <<"Unknown device type: ", intent.primary_filters.device,
                    ". Valid options: ">> \o Listed(ValidDevices)>>
    ELSE IF /\ Truthy(intent.primary_filters.network)
            /\ Lower(intent.primary_filters.network) \notin SeqToSet(ValidNetworks)
    THEN <<FALSE, <<"Unknown network type: ", intent.primary_filters.network,
                    ". Valid options: ">> \o Listed(ValidNetworks)>>
    ELSE <<TRUE, <<>>>>

\* ------------------------------------------------------------ load_dataset

\* AnalysisService.load_dataset on the file: the connection and table it
\* leaves behind, and how it ends ("loaded" is return True, the others are
\* the exception raised).
load_dataset(f, cn, tbl) ==
    IF ~f.exists
    THEN [conn |-> cn, table |-> tbl, outcome |-> "FileNotFoundError"]
    ELSE IF RequiredColumns \ f.columns # {}
    THEN [conn |-> "open",
          table |-> [columns |-> f.columns, rows |-> f.rows],
          outcome |-> "ValueError"]
    ELSE [conn |-> "open",
          table |-> [columns |-> f.columns \cup {"date_only"}, rows |-> f.rows],
          outcome |-> "loaded"]

\* ---------------------------------------------------------- session service

\* SessionService(max_turns, max_sessions): the two parameters of the
\* constructor (settings.max_context_turns and the default of max_sessions).
MaxTurns == 2
MaxSessions == 2

\* schemas.ConversationTurn
Turn(role, content) == [role |-> role, content |-> content]

\* schemas.SessionContext(session_id=...): a session with no turn.
SessionContext(session_id) == [session_id |-> session_id, turns |-> <<>>]

\* The keys of the OrderedDict.
Stored(ss) == {ss[i].session_id : i \in 1..Len(ss)}

\* self._sessions[session_id]
Lookup(ss, session_id) == ss[CHOOSE i \in 1..Len(ss) : ss[i].session_id = session_id]

\* del self._sessions[session_id]
Without(ss, session_id) == SelectSeq(ss, LAMBDA x : x.session_id # session_id)

\* OrderedDict.move_to_end(session_id)
move_to_end(ss, session_id) == Append(Without(ss, session_id), Lookup(ss, session_id))

\* An eviction that removes the newest entry, popitem(last=True).
PopNewest(ss) == SubSeq(ss, 1, Len(ss) - 1)

\* OrderedDict.popitem(last=False): the entry at the front goes.
PopOldest(ss) == Tail(ss)

\* SessionService._add_session
_add_session(ss, session_id, session) ==
    Append(IF Len(ss) >= MaxSessions THEN PopOldest(ss) ELSE ss, session)

\* SessionService.get_session: the dict afterwards; the session returned is
\* its last entry.
get_session(ss, session_id) ==
    IF session_id \in Stored(ss)
    THEN move_to_end(ss, session_id)
    ELSE _add_session(ss, session_id, SessionContext(session_id))

\* turns[:n], the first n turns.
KeepFirst(turns, n) == SubSeq(turns, 1, n)

\* turns[-n:] for n >= 1, the last n turns.
KeepLast(turns, n) == SubSeq(turns, Len(turns) - n + 1, Len(turns))

\* An append whose trim keeps the oldest turns.
AppendedKeepingFirst(turns, turn) ==
    IF Len(turns) + 1 > MaxTurns
    THEN KeepFirst(Append(turns, turn), MaxTurns)
    ELSE Append(turns, turn)

\* session.turns.append(turn), then the trim to max_turns.
Appended(turns, turn) ==
    IF Len(turns) + 1 > MaxTurns
    THEN KeepLast(Append(turns, turn), MaxTurns)
    ELSE Append(turns, turn)

\* SessionService.add_turn
add_turn(ss, session_id, role, content) ==
    [get_session(ss, session_id) EXCEPT
        ![Len(get_session(ss, session_id))].turns = Appended(@, Turn(role, content))]

\* f"{role_label}: {content}"
ContextLine(turn) ==
    (IF turn.role = "user" THEN "User" ELSE "Assistant") \o ": " \o turn.content

\* SessionService.get_context_string: the dict afterwards and the text.
get_context_string(ss, session_id) ==
    [sessions |-> get_session(ss, session_id),
     text |-> IF session_id \notin Stored(ss) \/ Lookup(ss, session_id).turns = <<>>
              THEN "No previous context."
              ELSE Join("\n", [i \in 1..Len(Lookup(ss, session_id).turns) |->
                                  ContextLine(Lookup(ss, session_id).turns[i])])]

\* SessionService.clear_session
clear_session(ss, session_id) ==
    IF session_id \in Stored(ss) THEN Without(ss, session_id) ELSE ss

\* ------------------------------------------------------------- rate limiter

\* RateLimiter(max_requests=settings.rate_limit_per_min, window_seconds=60)
MaxRequests == 2
WindowSeconds == 60

\* A limiter that records the call before it compares with max_requests.
is_allowed_counting_all(reqs, session_id, now) ==
    LET kept == SelectSeq(reqs[session_id], LAMBDA ts : ts > now - WindowSeconds)
    IN  [requests |-> [reqs EXCEPT ![session_id] = Append(kept, now)],
         allowed |-> Len(kept) < MaxRequests]

\* RateLimiter.is_allowed: the dict afterwards and the answer.
is_allowed(reqs, session_id, now) ==
    LET kept == SelectSeq(reqs[session_id], LAMBDA ts : ts > now - WindowSeconds)
    IN  IF Len(kept) >= MaxRequests
        THEN [requests |-> [reqs EXCEPT ![session_id] = kept], allowed |-> FALSE]
        ELSE [requests |-> [reqs EXCEPT ![session_id] = Append(kept, now)],
              allowed |-> TRUE]

\* --------------------------------------------------------------- the inputs

MetricInputs ==
    {"failure_rate", "volume", "avg_transaction_amount", "fraud_rate",
     "count", "Failure_Rate", "bogus_metric", ""}

FewMetricInputs == {"failure_rate", "volume", "avg_transaction_amount", ""}

ByInputs == {<<>>, <<"category">>, <<"device">>, <<"device", "category">>}

SegmentInputs ==
    {<<>>, <<<<"device", "Android">>>>, <<<<"device", "iOS">>>>,
     <<<<"device", "Android">>, <<"network", "4G">>>>}

SmallFilters == FiltersUpTo(1)

SmallTimeWindows ==
    {NoTimeWindow,
     [period |-> "last_7_days", from |-> None, to |-> None],
     [period |-> None, from |-> DateText(97), to |-> DateText(45)]}

LimitInputs == {1, 10}

Operations ==
    {"compute_failure_rate", "aggregate", "compare_segments", "time_series",
     "get_top_failure_codes", "get_executive_summary"}

NoCall == [op |-> None, args |-> <<>>]

NoResult == AnalysisResult(TRUE, None, <<>>, None, NoChart, None)

\* schemas.IntentSchema
Intent(intent_type, metric, primary_filters, compare_with, time_window, follow_up_needed, follow_up_question) ==
    [intent_type |-> intent_type, metric |-> metric,
     primary_filters |-> primary_filters, compare_with |-> compare_with,
     time_window |-> time_window, follow_up_needed |-> follow_up_needed,
     follow_up_question |-> follow_up_question]

IntentTypes ==
    {"metric_query", "comparison", "time_series", "segmentation",
     "clarification", "unknown"}

\* The intents extract_intent may return: whatever the language model's JSON
\* says, and the clarification intents of the rate limiter and of a failed
\* or unparsable model call.
Intents ==
    {Intent(t, m, f, None, NoTimeWindow, FALSE, None) :
        t \in IntentTypes, m \in MetricInputs \cup {None, "failure_codes", "executive_summary"},
        f \in SmallFilters}
    \cup
    {Intent("comparison", m, [NoFilters EXCEPT !.device = d], c, w, FALSE, None) :
        m \in {None, "failure_rate", "volume"}, d \in {None, "Android", "android"},
        c \in {"iOS", "ios", "Web", "Tablet"}, w \in SmallTimeWindows}
    \cup
    {Intent(t, m, NoFilters, None, NoTimeWindow, u, q) :
        t \in IntentTypes, m \in {None, "volume", "bogus_metric"},
        u \in BOOLEAN, q \in {None, "Which metric?"}}

NoIntent == Intent(None, None, NoFilters, None, NoTimeWindow, FALSE, None)

\* templates.RATE_LIMIT_RESPONSE
RateLimitResponse ==
    "I'm currently processing many requests. Please wait a moment and try again."
    \o "\n\nIn the meantime, you can review the previous analysis or try a simpler query."

\* extract_intent when the rate limiter refuses the session.
RateLimited ==
    Intent("clarification", None, NoFilters, None, NoTimeWindow, TRUE, RateLimitResponse)

\* extract_intent when the model call fails, or its answer is no JSON.
FailedExtraction ==
    {Intent("unknown", None, NoFilters, None, NoTimeWindow, TRUE, q) :
        q \in {"I'm having trouble understanding your request. Could you rephrase it?",
               "I couldn't parse your request. Could you be more specific?"}}

\* The session ids of the requests: one more than the service keeps.
SessionIds == {"s" \o ToString(i) : i \in 1..(MaxSessions + 1)}

\* The sessions the chat requests and the limiter calls of the model name.
ChatSessionIds == {"s1"}
LimiterIds == {"s1", "s2"}

\* The n-th turn the direct callers add: every turn is a different one.
TurnInput(n) ==
    Turn(IF n % 2 = 1 THEN "user" ELSE "assistant", "m" \o ToString(n))

\* Turns added in all by the direct callers of add_turn.
MaxAdds == 4

\* The clock advances by this many seconds at a time, up to MaxClock.
TickSeconds == 30
MaxClock == 90

\* Nothing has happened yet.
NoPast ==
    [recency |-> <<>>,
     added |-> [id \in SessionIds |-> <<>>],
     ever |-> [id \in SessionIds |-> <<>>],
     allowed |-> [id \in SessionIds |-> <<>>],
     evicted |-> {}]

\* An HTTP response of the chat endpoint: ChatResponse ("chat"),
\* ClarificationResponse ("clarification") or an HTTPException ("error").
Response(status, kind, text, numbers, query) ==
    [status |-> status, kind |-> kind, text |-> text, numbers |-> numbers,
     query |-> query]

NoResponse == Response(0, None, <<>>, <<>>, None)

\* The request in flight: where its handler stands, the intent extracted,
\* the calls it has made so far in order, the turns it appended to its
\* session, and its response.
ChatIdle ==
    [pc |-> "idle", session_id |-> None, intent |-> NoIntent, events |-> <<>>,
     added |-> <<>>, response |-> NoResponse]

\* -------------------------------------------------------------------- Init

Init ==
    /\ file \in Files
    /\ service = None
    /\ conn = None
    /\ table = NoTable
    /\ loadState = "never"
    /\ executed = <<>>
    /\ call = NoCall
    /\ result = NoResult
    /\ chat = ChatIdle
    /\ sessions = <<>>
    /\ requests = [id \in SessionIds |-> <<>>]
    /\ clock = 0
    /\ past = NoPast

\* ------------------------------------------------------- the engine's calls

\* engine.load_dataset(), called directly on an engine.
LoadDataset ==
    /\ chat.pc = "idle"
    /\ call = NoCall
    /\ LET r == load_dataset(file, conn, table)
       IN  /\ conn' = r.conn
           /\ table' = r.table
           /\ loadState' = r.outcome
    /\ UNCHANGED <<serviceVars, file, service, call, result, executed, chat>>

\* get_analysis_service(data_path): the global is assigned before the load,
\* so it stays set when load_dataset raises.
GetAnalysisService ==
    IF service = None
    THEN LET r == load_dataset(file, conn, table)
         IN  /\ service' = "engine"
             /\ conn' = r.conn
             /\ table' = r.table
             /\ loadState' = r.outcome
    ELSE UNCHANGED <<service, conn, table, loadState>>

\* main.lifespan: the pre-load at startup; it logs and swallows the exception.
Startup ==
    /\ chat.pc = "idle"
    /\ call = NoCall
    /\ service = None
    /\ GetAnalysisService
    /\ UNCHANGED <<serviceVars, file, call, result, executed, chat>>

\* A public operation returned r for the call c.
Returned(c, r) ==
    /\ call' = c
    /\ result' = r.result
    /\ executed' = r.executed
    /\ table' = Written(table, r.written)
    /\ UNCHANGED <<serviceVars, file, service, conn, loadState, chat>>

ComputeFailureRate ==
    /\ chat.pc = "idle"
    /\ call = NoCall
    /\ \E f \in Filters, w \in TimeWindows :
          Returned([op |-> "compute_failure_rate",
                    args |-> [filters |-> f, time_window |-> w]],
                   compute_failure_rate(conn, table, f, w))

Aggregate ==
    /\ chat.pc = "idle"
    /\ call = NoCall
    /\ \E m \in MetricInputs, by \in ByInputs, f \in SmallFilters, w \in SmallTimeWindows :
          Returned([op |-> "aggregate",
                    args |-> [metric |-> m, by |-> by, filters |-> f, time_window |-> w]],
                   aggregate(conn, table, m, by, f, w))

CompareSegments ==
    /\ chat.pc = "idle"
    /\ call = NoCall
    /\ \E a \in SegmentInputs, b \in SegmentInputs, m \in FewMetricInputs,
          f \in SmallFilters, w \in SmallTimeWindows :
          Returned([op |-> "compare_segments",
                    args |-> [segment_a |-> a, segment_b |-> b, metric |-> m,
                              filters |-> f, time_window |-> w]],
                   compare_segments(conn, table, a, b, m, f, w))

TimeSeries ==
    /\ chat.pc = "idle"
    /\ call = NoCall
    /\ \E m \in FewMetricInputs, p \in {"day", "week", "month"}, f \in SmallFilters,
          w \in SmallTimeWindows, g \in {None, "device"} :
          Returned([op |-> "time_series",
                    args |-> [metric |-> m, period |-> p, filters |-> f,
                              time_window |-> w, group_by |-> g]],
                   time_series(conn, table, m, p, f, w, g))

GetTopFailureCodes ==
    /\ chat.pc = "idle"
    /\ call = NoCall
    /\ \E f \in SmallFilters, w \in SmallTimeWindows, n \in LimitInputs :
          Returned([op |-> "get_top_failure_codes",
                    args |-> [filters |-> f, time_window |-> w, limit |-> n]],
                   get_top_failure_codes(conn, table, f, w, n))

GetExecutiveSummary ==
    /\ chat.pc = "idle"
    /\ call = NoCall
    /\ \E w \in TimeWindows :
          Returned([op |-> "get_executive_summary", args |-> [time_window |-> w]],
                   get_executive_summary(conn, table, w))

IsMetricComputable ==
    /\ chat.pc = "idle"
    /\ call = NoCall
    /\ \E i \in Intents :
          /\ call' = [op |-> "is_metric_computable", args |-> [intent |-> i]]
          /\ result' = is_metric_computable(i)
          /\ executed' = <<>>
          /\ UNCHANGED <<serviceVars, file, service, conn, table, loadState, chat>>

\* The caller has taken the result; the engine waits for the next call.
Return ==
    /\ chat.pc = "idle"
    /\ call # NoCall
    /\ call' = NoCall
    /\ result' = NoResult
    /\ executed' = <<>>
    /\ UNCHANGED <<serviceVars, file, service, conn, table, loadState, chat>>

Next ==
    \/ LoadDataset
    \/ Startup
    \/ ComputeFailureRate
    \/ Aggregate
    \/ CompareSegments
    \/ TimeSeries
    \/ GetTopFailureCodes
    \/ GetExecutiveSummary
    \/ IsMetricComputable
    \/ Return

Spec == Init /\ [][Next]_vars

\* --------------------------------------------------------- chat endpoint

\* "failure" in s, over the metric names of the model
ContainsFailure(s) == s \in {"failure_rate", "failure_codes"}

\* chat._execute_analysis: the operation the intent is dispatched to, with
\* its arguments, and what it returns.
_execute_analysis(intent, cn, tbl) ==
    LET time_window == intent.time_window
        pf == intent.primary_filters
    IN
    IF intent.intent_type = "comparison"
    THEN LET known == /\ Truthy(intent.compare_with)
                      /\ Lower(intent.compare_with) \in {"android", "ios", "web"}
             segment_a ==
                 IF Truthy(intent.compare_with)
                 THEN IF known
                      THEN IF Truthy(pf.device) THEN <<<<"device", pf.device>>>>
                           ELSE <<<<"device", "Android">>>>
                      ELSE <<>>
                 ELSE <<<<"device", "Android">>>>
             segment_b ==
                 IF Truthy(intent.compare_with)
                 THEN IF known THEN <<<<"device", intent.compare_with>>>> ELSE <<>>
                 ELSE <<<<"device", "iOS">>>>
             metric == IF Truthy(intent.metric) THEN intent.metric ELSE "failure_rate"
         IN  [call |-> [op |-> "compare_segments",
                        args |-> [segment_a |-> segment_a, segment_b |-> segment_b,
                                  metric |-> metric, filters |-> pf,
                                  time_window |-> time_window]],
              ret |-> compare_segments(cn, tbl, segment_a, segment_b, metric, pf,
                                       time_window)]
    ELSE IF intent.intent_type = "time_series"
    THEN LET metric == IF Truthy(intent.metric) THEN intent.metric ELSE "volume"
         IN  [call |-> [op |-> "time_series",
                        args |-> [metric |-> metric, period |-> "day", filters |-> pf,
                                  time_window |-> time_window, group_by |-> None]],
              ret |-> time_series(cn, tbl, metric, "day", pf, time_window, None)]
    ELSE IF intent.intent_type = "segmentation"
    THEN LET metric == IF Truthy(intent.metric) THEN intent.metric ELSE "volume"
             group_by == IF Truthy(pf.device) THEN <<"device">>
                         ELSE IF Truthy(pf.age_group) THEN <<"age_group">>
                         ELSE <<"category">>
         IN  [call |-> [op |-> "aggregate",
                        args |-> [metric |-> metric, by |-> group_by, filters |-> pf,
                                  time_window |-> time_window]],
              ret |-> aggregate(cn, tbl, metric, group_by, pf, time_window)]
    ELSE LET metric == IF Truthy(intent.metric) THEN intent.metric ELSE "failure_rate"
         IN  IF Lower(metric) = "failure_codes"
             THEN [call |-> [op |-> "get_top_failure_codes",
                             args |-> [filters |-> pf, time_window |-> time_window,
                                       limit |-> 10]],
                   ret |-> get_top_failure_codes(cn, tbl, pf, time_window, 10)]
             ELSE IF Lower(metric) = "executive_summary"
             THEN [call |-> [op |-> "get_executive_summary",
                             args |-> [time_window |-> time_window]],
                   ret |-> get_executive_summary(cn, tbl, time_window)]
             ELSE IF ContainsFailure(Lower(metric))
             THEN [call |-> [op |-> "compute_failure_rate",
                             args |-> [filters |-> pf, time_window |-> time_window]],
                   ret |-> compute_failure_rate(cn, tbl, pf, time_window)]
             ELSE [call |-> [op |-> "aggregate",
                             args |-> [metric |-> metric, by |-> <<>>, filters |-> pf,
                                       time_window |-> time_window]],
                   ret |-> aggregate(cn, tbl, metric, <<>>, pf, time_window)]

Message == "user message"

\* A request that persists the assistant's reply without the user's message.
ReplyOnly(message, reply) == <<Turn("assistant", reply)>>

\* The two turns a request persists: the user's message, then the reply.
Exchange(message, reply) == <<Turn("user", message), Turn("assistant", reply)>>

\* session_service.add_turn(session_id, role, content), once per turn.
RECURSIVE AddTurns(_, _, _)
AddTurns(ss, session_id, turns) ==
    IF turns = <<>> THEN ss
    ELSE AddTurns(add_turn(ss, session_id, turns[1].role, turns[1].content),
                  session_id, Tail(turns))

\* chat, lines 61-78: the services are fetched (the first fetch loads the
\* dataset and may raise, which ends the request in the generic 500), the
\* context of the session is read (which creates the session, or makes it the
\* most recently used), then the handler awaits extract_intent.
LoadRaises == service = None /\ load_dataset(file, conn, table).outcome # "loaded"

ChatStart ==
    /\ chat.pc = "idle"
    /\ call = NoCall
    /\ GetAnalysisService
    /\ \E id \in ChatSessionIds :
          /\ chat' = IF LoadRaises
                     THEN [chat EXCEPT !.pc = "done", !.session_id = id,
                              !.events = <<"get_analysis_service">>,
                              !.response = Response(500, "error",
                                  <<"An error occurred processing your request.">>,
                                  <<>>, None)]
                     ELSE [chat EXCEPT !.pc = "extract", !.session_id = id,
                              !.events = <<"get_analysis_service", "get_context_string">>]
          /\ sessions' = IF LoadRaises THEN sessions
                         ELSE get_context_string(sessions, id).sessions
    /\ UNCHANGED <<requests, clock, past, file, call, result, executed>>

\* extract_intent returns: the rate limiter is asked first; when it refuses,
\* the intent is the rate-limit clarification, otherwise whatever the
\* language model's answer makes it.
Extracted(limit) ==
    /\ requests' = limit.requests
    /\ \E i \in (IF limit.allowed THEN Intents \cup FailedExtraction ELSE {RateLimited}) :
          chat' = [chat EXCEPT !.pc = "intent", !.intent = i,
                               !.events = Append(@, "extract_intent")]

ChatIntent ==
    /\ chat.pc = "extract"
    /\ Extracted(is_allowed(requests, chat.session_id, clock))
    /\ UNCHANGED <<sessions, clock, past, file, service, conn, table, loadState,
                   call, result, executed>>

\* A test that looks at the intent type alone.
ClarificationTypeOnly(intent) == intent.intent_type = "clarification"

\* chat, line 81
NeedsClarification(intent) ==
    intent.follow_up_needed \/ intent.intent_type = "clarification"

\* chat, lines 80-96
Clarified(clarification) ==
    /\ chat' = [chat EXCEPT
                  !.pc = "done",
                  !.events = @ \o [i \in 1..Len(Exchange(Message, clarification)) |->
                                      "add_turn"],
                  !.added = @ \o Exchange(Message, clarification),
                  !.response = Response(200, "clarification", <<clarification>>,
                                        <<>>, None)]
    /\ sessions' = AddTurns(sessions, chat.session_id, Exchange(Message, clarification))

ChatClarify ==
    /\ chat.pc = "intent"
    /\ NeedsClarification(chat.intent)
    /\ Clarified(IF Truthy(chat.intent.follow_up_question)
                 THEN chat.intent.follow_up_question
                 ELSE "generated clarification")
    /\ UNCHANGED <<requests, clock, past, file, service, conn, table, loadState,
                   call, result, executed>>

\* chat, lines 99-105
ChatUnknown ==
    /\ chat.pc = "intent"
    /\ ~NeedsClarification(chat.intent)
    /\ chat.intent.intent_type = "unknown"
    /\ chat' = [chat EXCEPT
                  !.pc = "done",
                  !.response = Response(200, "clarification",
                      <<"I'm not sure what analysis you're looking for.">>, <<>>, None)]
    /\ UNCHANGED <<serviceVars, file, service, conn, table, loadState, call, result, executed>>

\* A handler that calls the Guard and goes on to the analysis whatever it says.
ChatGuardIgnored ==
    /\ chat.pc = "intent"
    /\ ~NeedsClarification(chat.intent)
    /\ chat.intent.intent_type # "unknown"
    /\ chat' = [chat EXCEPT
                  !.pc = "guarded",
                  !.events = Append(@, IF is_metric_computable(chat.intent)[1]
                                       THEN "is_metric_computable: True"
                                       ELSE "is_metric_computable: False")]
    /\ UNCHANGED <<serviceVars, file, service, conn, table, loadState, call, result, executed>>

\* chat, lines 107-114
ChatGuard ==
    /\ chat.pc = "intent"
    /\ ~NeedsClarification(chat.intent)
    /\ chat.intent.intent_type # "unknown"
    /\ LET verdict == is_metric_computable(chat.intent)
       IN  chat' = IF verdict[1]
                   THEN [chat EXCEPT !.pc = "guarded",
                            !.events = Append(@, "is_metric_computable: True")]
                   ELSE [chat EXCEPT !.pc = "done",
                            !.events = Append(@, "is_metric_computable: False"),
                            !.response = Response(200, "clarification", verdict[2],
                                                  <<>>, None)]
    /\ UNCHANGED <<serviceVars, file, service, conn, table, loadState, call, result, executed>>

\* chat, lines 116-124
Executed(x) ==
    /\ call' = x.call
    /\ result' = x.ret.result
    /\ executed' = x.ret.executed
    /\ table' = Written(table, x.ret.written)
    /\ chat' = IF x.ret.result.success
               THEN [chat EXCEPT !.pc = "explain",
                        !.events = Append(@, x.call.op)]
               ELSE [chat EXCEPT !.pc = "done",
                        !.events = Append(@, x.call.op),
                        !.response = Response(500, "error",
                            <<"Analysis failed: ", x.ret.result.error>>, <<>>, None)]

ChatExecute ==
    /\ chat.pc = "guarded"
    /\ Executed(_execute_analysis(chat.intent, conn, table))
    /\ UNCHANGED <<serviceVars, file, service, conn, loadState>>

\* chat, lines 126-153: explain_results returns (it asks the rate limiter
\* too, and answers with a fixed explanation when refused), the response is
\* built and the two turns are appended.
ChatRespond ==
    /\ chat.pc = "explain"
    /\ requests' = is_allowed(requests, chat.session_id, clock).requests
    /\ chat' = [chat EXCEPT
                  !.pc = "done",
                  !.events = @ \o <<"explain_results">>
                               \o [i \in 1..Len(Exchange(Message, "answer")) |-> "add_turn"],
                  !.added = @ \o Exchange(Message, "answer"),
                  !.response = Response(200, "chat", <<"answer">>, result.numbers,
                                        result.query_executed)]
    /\ sessions' = AddTurns(sessions, chat.session_id, Exchange(Message, "answer"))
    /\ UNCHANGED <<clock, past, file, service, conn, table, loadState, call, result,
                   executed>>

\* The response is sent; the next request may arrive.
ChatFinish ==
    /\ chat.pc = "done"
    /\ chat' = ChatIdle
    /\ call' = NoCall
    /\ result' = NoResult
    /\ executed' = <<>>
    /\ UNCHANGED <<serviceVars, file, service, conn, table, loadState>>

ChatNext ==
    \/ Startup
    \/ ChatStart
    \/ ChatIntent
    \/ ChatClarify
    \/ ChatUnknown
    \/ ChatGuard
    \/ ChatExecute
    \/ ChatRespond
    \/ ChatFinish

ChatSpec == Init /\ [][ChatNext]_vars

\* ------------------------------------------------ the services called directly

engineVars == <<file, service, conn, table, loadState, executed, chat>>

\* The ids by their last access, the most recent last, after one more access.
Accessed(session_id) ==
    Append(SelectSeq(past.recency, LAMBDA x : x # session_id), session_id)

\* The record of the past after a call that accessed a session and added
\* turns to it: a session that is not stored starts again with no turn.
Remembered(session_id, turns) ==
    [past EXCEPT !.recency = Accessed(session_id),
                 !.added[session_id] =
                     (IF session_id \in Stored(sessions) THEN @ ELSE <<>>) \o turns,
                 !.ever[session_id] = @ \o turns,
                 !.evicted = Stored(sessions) \
                                 Stored(get_session(sessions, session_id))]

Called(op, args, value) ==
    /\ call' = [op |-> op, args |-> args]
    /\ result' = value
    /\ UNCHANGED engineVars

\* session_service.get_session(session_id)
GetSession ==
    \E id \in SessionIds :
        /\ sessions' = get_session(sessions, id)
        /\ past' = Remembered(id, <<>>)
        /\ Called("get_session", [session_id |-> id],
                  get_session(sessions, id)[Len(get_session(sessions, id))])
        /\ UNCHANGED <<requests, clock>>

TotalAdded == SeqSum([i \in 1..Len(past.recency) |-> Len(past.ever[past.recency[i]])])

\* session_service.add_turn(session_id, role, content)
AddTurn ==
    /\ TotalAdded < MaxAdds
    /\ \E id \in SessionIds, turn \in {TurnInput(TotalAdded + 1)} :
          /\ sessions' = add_turn(sessions, id, turn.role, turn.content)
          /\ past' = Remembered(id, <<turn>>)
          /\ Called("add_turn", [session_id |-> id, turn |-> turn], None)
          /\ UNCHANGED <<requests, clock>>

\* session_service.get_context_string(session_id)
GetContextString ==
    \E id \in SessionIds :
        /\ sessions' = get_context_string(sessions, id).sessions
        /\ past' = Remembered(id, <<>>)
        /\ Called("get_context_string", [session_id |-> id],
                  get_context_string(sessions, id).text)
        /\ UNCHANGED <<requests, clock>>

\* session_service.clear_session(session_id)
ClearSession ==
    \E id \in SessionIds :
        /\ sessions' = clear_session(sessions, id)
        /\ Called("clear_session", [session_id |-> id], None)
        /\ UNCHANGED <<requests, clock, past>>

SessionNext ==
    \/ GetSession
    \/ AddTurn
    \/ GetContextString
    \/ ClearSession

\* The two services do not read the dataset: their calls are followed from
\* the initial state whose data file is absent.
ServiceInit == Init /\ ~file.exists

SessionSpec == ServiceInit /\ [][SessionNext]_vars

\* The service under add_turn calls alone.
TurnNext == AddTurn

TurnSpec == ServiceInit /\ [][TurnNext]_vars

\* rate_limiter.is_allowed(session_id) at the time the clock shows.
Answered(session_id, limit) ==
    /\ requests' = limit.requests
    /\ past' = [past EXCEPT !.allowed[session_id] =
                                IF limit.allowed THEN Append(@, clock) ELSE @]
    /\ Called("is_allowed", [session_id |-> session_id, now |-> clock], limit.allowed)
    /\ UNCHANGED <<sessions, clock>>

IsAllowed == \E id \in LimiterIds : Answered(id, is_allowed(requests, id, clock))

\* Time passes.
Tick ==
    /\ clock + TickSeconds <= MaxClock
    /\ clock' = clock + TickSeconds
    /\ UNCHANGED <<sessions, requests, past, call, result, engineVars>>

LimiterNext ==
    \/ IsAllowed
    \/ Tick

LimiterSpec == ServiceInit /\ [][LimiterNext]_vars

\* ================================================================ properties

EventSet == {chat.events[i] : i \in 1..Len(chat.events)}

\* The metric names an operation has an aggregation expression registered for.
RegisteredIn(op) ==
    CASE op = "aggregate" -> Keys(AggregateExprMap)
      [] op = "compare_segments" -> Keys(CompareExprMap)
      [] op = "time_series" -> Keys(TimeSeriesExprMap)
      [] OTHER -> {}

\* C1: on an engine whose dataset load never succeeded (load_dataset never
\* called, or failed because the file is absent), each of the six operations,
\* for any arguments, returns a result with success=false and the error
\* 'Dataset not loaded'.
C1_UnloadedEngineReportsNotLoaded ==
    (call.op \in Operations /\ loadState \in {"never", "FileNotFoundError"}) =>
        /\ result.success = FALSE
        /\ result.error = "Dataset not loaded"
        /\ executed = <<>>

\* C1 witness: an operation has returned on an engine whose load failed for
\* want of the file.
C1_Witness ==
    /\ call.op = "aggregate"
    /\ loadState = "FileNotFoundError"
    /\ result.error = "Dataset not loaded"

\* C2, as stated: after load_dataset failed with a schema violation every
\* operation returns success=false with the dataset-unavailable error and no
\* query is run against the partially loaded table.
C2_SchemaViolationDegrades ==
    (call.op \in Operations /\ loadState = "ValueError") =>
        /\ result.success = FALSE
        /\ result.error = "Dataset not loaded"
        /\ executed = <<>>

\* C3, as stated: on a loaded dataset, with exactly one filter field set (and
\* no time window), compute_failure_rate succeeds and reports a total no
\* larger than the total it reports without filters.
C3_OneFilterSucceeds ==
    (/\ call.op = "compute_failure_rate"
     /\ loadState = "loaded"
     /\ Cardinality(SetFields(call.args.filters)) = 1
     /\ call.args.time_window = NoTimeWindow) =>
        /\ result.success = TRUE
        /\ result.numbers[2].raw_value
             <= compute_failure_rate(conn, table, NoFilters, NoTimeWindow)
                    .result.numbers[2].raw_value

\* C4, as stated: a chat request whose intent is a comparison with the device
\* filter Android and compare_with iOS, on a loaded dataset, finishes with an
\* HTTP 200 ChatResponse carrying the comparison numbers.
C4_ComparisonAnswered ==
    (/\ chat.pc = "done"
     /\ loadState = "loaded"
     /\ chat.intent.intent_type = "comparison"
     /\ chat.intent.primary_filters.device = "Android"
     /\ chat.intent.compare_with = "iOS") =>
        /\ chat.response.status = 200
        /\ chat.response.kind = "chat"
        /\ Len(chat.response.numbers) = 3

\* C5: in every chat request an analysis operation is called, and a query
\* handed to the database, only after is_metric_computable returned true for
\* the request's intent; when the Guard rejects, no operation is called and
\* the reply is a clarification whose text is the Guard's reason.
C5_GuardBeforeAnalysis ==
    /\ \A i \in 1..Len(chat.events) :
          chat.events[i] \in Operations =>
              \E j \in 1..(i - 1) : chat.events[j] = "is_metric_computable: True"
    /\ (chat.pc # "idle" /\ call # NoCall) => "is_metric_computable: True" \in EventSet
    /\ "is_metric_computable: False" \in EventSet =>
          /\ EventSet \cap Operations = {}
          /\ call = NoCall
          /\ executed = <<>>
          /\ chat.response.status = 200
          /\ chat.response.kind = "clarification"
          /\ chat.response.text = is_metric_computable(chat.intent)[2]
          /\ chat.response.text # <<>>

\* C5 witness: the Guard has rejected the intent of a request and the request
\* ended in a clarification.
C5_Witness ==
    /\ chat.pc = "done"
    /\ "is_metric_computable: False" \in EventSet
    /\ chat.response.kind = "clarification"
    /\ chat.intent.metric = "bogus_metric"

\* C6, as stated: every metric name the Guard accepted and the endpoint
\* dispatched to aggregate, compare_segments or time_series has an expression
\* registered under its own name in that operation.
C6_AcceptedMetricRegistered ==
    (/\ chat.pc \in {"explain", "done"}
     /\ call.op \in {"aggregate", "compare_segments", "time_series"}
     /\ loadState = "loaded") =>
        Lower(call.args.metric) \in RegisteredIn(call.op)

\* C7: for every intent whose metric is named (non-empty) and, lower-cased,
\* is not in the supported metric vocabulary, is_metric_computable returns
\* (false, reason) where the reason contains 'not supported' and lists every
\* valid metric name; for every intent whose metric is in the vocabulary and
\* whose filters are all unset it returns (true, empty reason).
C7_MetricVocabulary ==
    call.op = "is_metric_computable" =>
        /\ (/\ Truthy(call.args.intent.metric)
            /\ Lower(call.args.intent.metric) \notin SeqToSet(SupportedMetrics)) =>
               /\ result[1] = FALSE
               /\ "not supported" \in SeqToSet(result[2])
               /\ call.args.intent.metric \in SeqToSet(result[2])
               /\ SeqToSet(SupportedMetrics) \subseteq SeqToSet(result[2])
        /\ (/\ call.args.intent.metric \in SeqToSet(SupportedMetrics)
            /\ call.args.intent.primary_filters = NoFilters) =>
               result = <<TRUE, <<>>>>

\* C7 witness: the Guard has rejected bogus_metric.
C7_Witness ==
    /\ call.op = "is_metric_computable"
    /\ call.args.intent.metric = "bogus_metric"
    /\ result[1] = FALSE

\* C8, as stated: in every intent the Guard accepts, a set device value is one
\* of Android, iOS, Web and a set network value one of 3G, 4G, 5G, WiFi.
C8_AcceptedFilterValues ==
    (call.op = "is_metric_computable" /\ result[1] = TRUE) =>
        /\ call.args.intent.primary_filters.device
              \in {None, "Android", "iOS", "Web"}
        /\ call.args.intent.primary_filters.network
              \in {None, "3G", "4G", "5G", "WiFi"}

\* C9: every result an operation returns with success=false has a populated
\* error message and an empty numbers list.
C9_FailureShape ==
    (call.op \in Operations /\ result.success = FALSE) =>
        /\ Truthy(result.error)
        /\ result.numbers = <<>>

\* C9 witness: an operation on a loaded dataset has failed in execution.
C9_Witness ==
    /\ call.op \in Operations
    /\ loadState = "loaded"
    /\ result.success = FALSE
    /\ executed # <<>>

\* C10, as stated: every result of an operation, the dataset-unavailable
\* failure included, carries in query_executed the text of a query that was
\* executed or attempted.
C10_QueryTextAlways ==
    call.op \in Operations => result.query_executed \in SeqToSet(executed)

\* C10, amended: a result returned after the connection check (a success or
\* an execution failure) carries in query_executed the text of the
\* operation's main query, the first one handed to the database; the
\* dataset-unavailable failure attempts no query and carries 'N/A'.
C10_QueryTextOrPlaceholder ==
    call.op \in Operations =>
        IF conn = None
        THEN result.query_executed = "N/A" /\ executed = <<>>
        ELSE executed # <<>> /\ result.query_executed = executed[1]

\* C10 witness: compute_failure_rate has succeeded after running its main
\* query and its sample query.
C10_Witness ==
    /\ call.op = "compute_failure_rate"
    /\ result.success = TRUE
    /\ Len(executed) = 2
    /\ result.query_executed = executed[1]

\* Two segment dicts with the same columns, two time windows with the same
\* keys present, two Filters values with the same set fields.
SameColumns(a, b) ==
    /\ Len(a) = Len(b)
    /\ \A i \in 1..Len(a) : a[i][1] = b[i][1]

SameKeys(w, v) ==
    \A k \in {"period", "from", "to"} : Truthy(w[k]) <=> Truthy(v[k])

SameFields(f, g) == SetFields(f) = SetFields(g)

\* C11, as stated: the text of the query an operation executes is the same
\* for two calls that differ only in the values of filters, segments or time
\* bounds (checked for compute_failure_rate and compare_segments).
C11_QueryTextIndependentOfValues ==
    /\ (call.op = "compute_failure_rate" /\ conn # None) =>
          \A f \in SmallFilters, w \in TimeWindows :
              (SameFields(f, call.args.filters) /\ SameKeys(w, call.args.time_window)) =>
                  compute_failure_rate(conn, table, f, w).result.query_executed
                      = result.query_executed
    /\ (call.op = "compare_segments" /\ conn # None) =>
          \A a \in SegmentInputs, b \in SegmentInputs :
              (/\ SameColumns(a, call.args.segment_a)
               /\ SameColumns(b, call.args.segment_b)) =>
                  compare_segments(conn, table, a, b, call.args.metric,
                                   call.args.filters, call.args.time_window)
                      .result.query_executed = result.query_executed

\* A date string DuckDB can cast, or none given.
ValidDate(s) == ~Truthy(s) \/ ParseDate(s) # -1

\* The arguments of the call c give a statement DuckDB accepts on a loaded
\* table as the engine hands it over: no placeholder left without a value,
\* castable dates, a metric usable as an alias, segments with a condition.
Executable(c) ==
    /\ "filters" \in DOMAIN c.args => c.args.filters = NoFilters
    /\ ValidDate(c.args.time_window.from)
    /\ ValidDate(c.args.time_window.to)
    /\ "metric" \in DOMAIN c.args => c.args.metric # ""
    /\ c.op = "compare_segments" => (c.args.segment_a # <<>> /\ c.args.segment_b # <<>>)

\* C12: every call of one of the six operations, on a loaded or unloaded
\* engine and for every combination of arguments, returns an AnalysisResult
\* (nothing is raised); a query the database rejects is reported through
\* success=false and the error field.
C12_NoOperationRaises ==
    call.op \in Operations =>
        /\ DOMAIN result = DOMAIN NoResult
        /\ result.success \in BOOLEAN
        /\ result.success = FALSE => Truthy(result.error)
        /\ (conn # None /\ ~Executable(call)) =>
              /\ result.success = FALSE
              /\ executed # <<>>
              /\ result.error # "Dataset not loaded"

\* C12 witness: get_executive_summary over a loaded table without rows, where
\* formatting the NULL sums raises inside the try block, has returned.
C12_Witness ==
    /\ call.op = "get_executive_summary"
    /\ loadState = "loaded"
    /\ table.rows = <<>>
    /\ Executable(call)
    /\ result.success = FALSE

\* The call c is one that reports a failure rate, and the numbers of its
\* result that are failure rates (in hundredths of a percent).
ReportsFailureRate(c) ==
    \/ c.op \in {"compute_failure_rate", "get_executive_summary"}
    \/ /\ c.op \in {"aggregate", "compare_segments", "time_series"}
       /\ Lower(c.args.metric) = "failure_rate"

RateNumbers(c, r) ==
    CASE c.op = "compute_failure_rate" -> {r.numbers[1]}
      [] c.op = "get_executive_summary" -> {r.numbers[4]}
      [] c.op = "compare_segments" -> {r.numbers[1], r.numbers[2]}
      [] OTHER -> SeqToSet(r.numbers)

\* C13, as stated: every operation that reports a failure rate, given a
\* statement the loaded database accepts, succeeds, also over zero rows, and
\* each failure rate it reports is a number in [0, 100], never NaN.
C13_FailureRateInRange ==
    (/\ call.op \in Operations
     /\ ReportsFailureRate(call)
     /\ loadState = "loaded"
     /\ Executable(call)) =>
        /\ result.success = TRUE
        /\ \A n \in RateNumbers(call, result) :
              /\ n.nan = FALSE
              /\ n.raw_value >= 0
              /\ n.raw_value <= 10000

\* C14, as stated: compare_segments with two identical segment definitions,
\* given a statement the loaded database accepts, succeeds with equal sample
\* sizes and a Difference raw value of exactly 0.
C14_IdenticalSegmentsDifferByZero ==
    (/\ call.op = "compare_segments"
     /\ loadState = "loaded"
     /\ Executable(call)
     /\ call.args.segment_a = call.args.segment_b) =>
        /\ result.success = TRUE
        /\ result.numbers[1].calculation.sample_size
              = result.numbers[2].calculation.sample_size
        /\ result.numbers[3].nan = FALSE
        /\ result.numbers[3].raw_value = 0

\* C15: a successful compare_segments result has exactly three numbers
\* (segment A, segment B, difference) and a bar chart with exactly two points,
\* the two segment values; the difference is A minus B, and the percentage
\* difference shown is (A minus B) divided by B times 100 (to one decimal),
\* 0 when B's value is 0.
C15_ComparisonShape ==
    (call.op = "compare_segments" /\ result.success = TRUE) =>
        /\ Len(result.numbers) = 3
        /\ result.numbers[3].label = "Difference"
        /\ result.chart_data.type = "bar"
        /\ Len(result.chart_data.data) = 2
        /\ \A i \in 1..2 :
              /\ result.chart_data.data[i].y = result.numbers[i].raw_value
              /\ result.chart_data.data[i].nan = result.numbers[i].nan
        /\ (result.numbers[1].nan = FALSE /\ result.numbers[2].nan = FALSE) =>
              /\ result.numbers[3].nan = FALSE
              /\ result.numbers[3].raw_value
                    = result.numbers[1].raw_value - result.numbers[2].raw_value
              /\ result.numbers[3].shown =
                    IF result.numbers[2].raw_value = 0 THEN Some(0)
                    ELSE Some(RoundDivSigned(
                             1000 * (result.numbers[1].raw_value
                                        - result.numbers[2].raw_value),
                             result.numbers[2].raw_value))

\* C15 witness: a comparison has succeeded with a non-zero value for B and a
\* non-zero difference.
C15_Witness ==
    /\ call.op = "compare_segments"
    /\ result.success = TRUE
    /\ result.numbers[2].nan = FALSE
    /\ result.numbers[2].raw_value # 0
    /\ result.numbers[3].nan = FALSE
    /\ result.numbers[3].raw_value # 0
    /\ result.numbers[3].shown # Some(0)

\* The rows of the table a call's filters and time window select.
RowsInScope(c) ==
    Matching(table, Query("", TRUE, Where(c.args.filters, c.args.time_window).conds, {}),
             <<>>)

GroupKeys(c) == {KeyOf(RowsInScope(c)[i], c.args.by) : i \in 1..Len(RowsInScope(c))}

\* C16: a successful grouped aggregation returns one number per distinct
\* group key of the filtered rows, at most 20 of them (all of them when there
\* are fewer than 20), in non-increasing order of raw value, with one
\* bar-chart point per number in the same order.
C16_GroupedAggregation ==
    (call.op = "aggregate" /\ call.args.by # <<>> /\ result.success = TRUE) =>
        /\ Len(result.numbers)
              = IF Cardinality(GroupKeys(call)) < 20
                THEN Cardinality(GroupKeys(call)) ELSE 20
        /\ \A i \in 1..Len(result.numbers) :
              result.numbers[i].label \in GroupKeys(call)
        /\ \A i, j \in 1..Len(result.numbers) :
              i < j =>
                 /\ result.numbers[i].label # result.numbers[j].label
                 /\ result.numbers[i].raw_value >= result.numbers[j].raw_value
        /\ result.chart_data.type = "bar"
        /\ Len(result.chart_data.data) = Len(result.numbers)
        /\ \A i \in 1..Len(result.numbers) :
              /\ result.chart_data.data[i].x = result.numbers[i].label
              /\ result.chart_data.data[i].y = result.numbers[i].raw_value

\* C16 witness: a grouping by category over more than 20 categories has
\* returned 20 numbers whose values differ.
C16_Witness ==
    /\ call.op = "aggregate"
    /\ call.args.by = <<"category">>
    /\ result.success = TRUE
    /\ Cardinality(GroupKeys(call)) > 20
    /\ Len(result.numbers) = 20
    /\ result.numbers[1].raw_value > result.numbers[20].raw_value

\* C17, as stated: every chart series of every result of every operation has
\* at most 20 points.
C17_ChartPointCap ==
    call.op \in Operations => Len(result.chart_data.data) <= 20

\* The percentages (in hundredths) shown beside the counts of a result.
ShownPercentages(r) == [i \in 1..Len(r.numbers) |-> r.numbers[i].shown[1]]

CodesInScope(c) == DistinctCodes(Failed(RowsInScope(c)), {})

\* C18, as stated: get_top_failure_codes with limit N returns at most N
\* numbers, counted over failed rows only, in non-increasing order of count,
\* whose percentages sum to at most 100, and to exactly 100 when N is not
\* smaller than the number of distinct failure codes.
C18_TopFailureCodes ==
    (call.op = "get_top_failure_codes" /\ result.success = TRUE) =>
        /\ Len(result.numbers) <= call.args.limit
        /\ \A i \in 1..Len(result.numbers) :
              result.numbers[i].label \in SeqToSet(CodesInScope(call))
        /\ \A i, j \in 1..Len(result.numbers) :
              i < j => result.numbers[i].raw_value >= result.numbers[j].raw_value
        /\ SeqSum(ShownPercentages(result)) <= 10000
        /\ (call.args.limit >= Len(CodesInScope(call)) /\ result.numbers # <<>>) =>
              SeqSum(ShownPercentages(result)) = 10000

\* The rows of the table the time window of a summary call selects.
SummaryScope(c) ==
    Matching(table,
             Query("", TRUE, _apply_time_window(AlwaysTrue, c.args.time_window).conds, {}),
             <<>>)

\* C19: every successful get_executive_summary result has exactly six
\* numbers in the order total transactions, total amount, average amount,
\* failure rate, fraud rate, review rate; each rate is 100 times the matching
\* row count divided by the total row count (rounded to 2, 4 and 2 decimals);
\* 10 failed, 2 fraud-flagged and 5 review-flagged of 100 rows give 10, 2, 5.
C19_ExecutiveSummary ==
    (call.op = "get_executive_summary" /\ result.success = TRUE) =>
        /\ [i \in 1..Len(result.numbers) |-> result.numbers[i].label]
              = <<"Total Transactions", "Total Volume", "Average Transaction",
                  "Failure Rate", "Fraud Rate", "Review Rate">>
        /\ \A i \in 1..6 : result.numbers[i].nan = FALSE
        /\ result.numbers[1].raw_value = Len(SummaryScope(call))
        /\ result.numbers[2].raw_value = 100 * SeqSum(Amounts(SummaryScope(call)))
        /\ result.numbers[3].raw_value
              = RoundDiv(100 * SeqSum(Amounts(SummaryScope(call))), Len(SummaryScope(call)))
        /\ result.numbers[4].raw_value
              = RoundDiv(100 * 100 * Len(Failed(SummaryScope(call))),
                         Len(SummaryScope(call)))
        /\ result.numbers[5].raw_value
              = RoundDiv(100 * 10000
                           * Len(SelectSeq(SummaryScope(call), LAMBDA r : r.fraud_flag = 1)),
                         Len(SummaryScope(call)))
        /\ result.numbers[6].raw_value
              = RoundDiv(100 * 100
                           * Len(SelectSeq(SummaryScope(call), LAMBDA r : r.review_flag = 1)),
                         Len(SummaryScope(call)))
        /\ Rate(10, 100, 100) = 10 * 100
        /\ Rate(2, 100, 10000) = 2 * 10000
        /\ Rate(5, 100, 100) = 5 * 100

\* C19 witness: a summary over five rows of which three failed, one is
\* fraud-flagged and one review-flagged.
C19_Witness ==
    /\ call.op = "get_executive_summary"
    /\ result.success = TRUE
    /\ result.numbers[1].raw_value = 5
    /\ result.numbers[4].raw_value = 6000
    /\ result.numbers[5].raw_value = 200000
    /\ result.numbers[6].raw_value = 2000

\* C20, as stated: the callers of get_analysis_service observe one outcome of
\* the single dataset load: a request that was handed an engine (and goes on
\* to use it) implies that the load succeeded, because the first caller of a
\* failed load saw an exception.
C20_OneLoadOutcomeForAll ==
    chat.pc \in {"extract", "intent", "guarded", "explain"} =>
        /\ service = "engine"
        /\ loadState = "loaded"

\* ---------------------------------------------------------------------- C21

\* The number of days a period tag reaches back.
DaysBack(period) ==
    IF period = "last_7_days" THEN 7
    ELSE IF period = "last_90_days" THEN 90
    ELSE 30

\* The bounds a time window asks for, each on its own: the relative lower
\* bound, the explicit lower bound, the explicit upper bound.
BoundsOf(w) ==
    (IF Truthy(w.period) THEN <<Cond("timestamp", ">=", DateText(Today - DaysBack(w.period)), FALSE)>>
     ELSE <<>>)
    \o (IF Truthy(w.from) THEN <<Cond("timestamp", ">=", w.from, FALSE)>> ELSE <<>>)
    \o (IF Truthy(w.to) THEN <<Cond("timestamp", "<=", w.to, FALSE)>> ELSE <<>>)

BoundText(c) == " AND timestamp " \o c.op \o " '" \o c.val \o "'"

\* The base predicate conjoined with the bounds.
Conjoined(base, bounds) ==
    [text |-> base.text \o Join("", [i \in 1..Len(bounds) |-> BoundText(bounds[i])]),
     conds |-> base.conds \o bounds,
     params |-> base.params]

\* C21: the predicate of every compute_failure_rate call is the base
\* predicate of its filters, unchanged when the time window has no period,
\* from or to, and otherwise conjoined with one bound for each of the three
\* that is present (now minus 7, 30 or 90 days for a period tag, 30 for any
\* other tag); the query executed is the one built on that predicate.
C21_TimeWindowBounds ==
    (call.op = "compute_failure_rate" /\ conn # None) =>
        LET base == _build_where_clause(call.args.filters)
            w == call.args.time_window
        IN  /\ _apply_time_window(base, w) = Conjoined(base, BoundsOf(w))
            /\ (BoundsOf(w) = <<>>) => _apply_time_window(base, w) = base
            /\ result.query_executed = FailureRateQuery(Conjoined(base, BoundsOf(w))).text

\* A call with a period tag, an explicit from and an explicit to has run
\* under the three bounds together.
C21_Witness ==
    /\ call.op = "compute_failure_rate"
    /\ result.success
    /\ Len(BoundsOf(call.args.time_window)) = 3
    /\ call.args.filters = NoFilters

\* ---------------------------------------------------------------------- C22

\* One clause and one value for each set field among fields, in their order.
RECURSIVE ClausesOf(_, _)
ClausesOf(filters, fields) ==
    IF fields = <<>> THEN <<>>
    ELSE (IF filters[fields[1]] # None
          THEN <<[clause |-> fields[1] \o " = ?", value |-> filters[fields[1]]]>>
          ELSE <<>>)
         \o ClausesOf(filters, Tail(fields))

\* C22: the predicate built for the filters of a call is the AND of one
\* equality placeholder clause per set field, none for an unset field, in
\* the order device, state, age_group, network, category, payment_method,
\* status; the values are the set fields' values in that order, as many as
\* there are placeholders; with no set field the predicate is 1=1 and the
\* value list is empty.
C22_PredicatePerSetField ==
    (call.op = "compute_failure_rate") =>
        LET built == _build_where_clause(call.args.filters)
            cs == ClausesOf(call.args.filters,
                            <<"device", "state", "age_group", "network", "category",
                              "payment_method", "status">>)
        IN  /\ Len(cs) = Cardinality(SetFields(call.args.filters))
            /\ built.text = IF cs = <<>> THEN "1=1"
                            ELSE Join(" AND ", [i \in 1..Len(cs) |-> cs[i].clause])
            /\ built.params = [i \in 1..Len(cs) |-> cs[i].value]
            /\ Len(Placeholders(built.conds)) = Len(built.params)
            /\ (conn # None /\ call.args.time_window = NoTimeWindow) =>
                   result.query_executed
                       = FailureRateQuery([text |-> IF cs = <<>> THEN "1=1"
                                                    ELSE Join(" AND ",
                                                        [i \in 1..Len(cs) |-> cs[i].clause]),
                                           conds |-> built.conds,
                                           params |-> built.params]).text

\* A call whose filters set two fields that are not adjacent in the order,
\* one of them to the empty string.
C22_Witness ==
    /\ call.op = "compute_failure_rate"
    /\ conn # None
    /\ call.args.time_window = NoTimeWindow
    /\ call.args.filters.device = ""
    /\ call.args.filters.category = "Food"

\* ---------------------------------------------------------------------- C23

\* C23, as stated: once load_dataset has succeeded, the table holds the rows
\* of the file whatever operations and Guard calls have been made since.
C23_DatasetUnchanged ==
    loadState = "loaded" =>
        /\ table.rows = file.rows
        /\ table.columns = file.columns \cup {"date_only"}

\* ---------------------------------------------------------------------- C24

\* The allowed calls of a session made before the call that just returned.
EarlierAllowed(session_id) ==
    IF result = TRUE
    THEN SubSeq(past.allowed[session_id], 1, Len(past.allowed[session_id]) - 1)
    ELSE past.allowed[session_id]

\* C24: a call of is_allowed is allowed exactly when fewer than max_requests
\* of the session's earlier allowed calls lie within the last window_seconds
\* (later than now - window_seconds); what other sessions did and the
\* session's own denied calls play no part.
C24_AllowedIffBelowLimit ==
    (call.op = "is_allowed") =>
        (result = TRUE) <=>
            Len(SelectSeq(EarlierAllowed(call.args.session_id),
                          LAMBDA ts : ts > call.args.now - WindowSeconds)) < MaxRequests

\* A session is refused after its earlier calls had left the window and new
\* ones had filled it again, while another session has calls of its own.
C24_Witness ==
    /\ call.op = "is_allowed"
    /\ result = FALSE
    /\ Len(past.allowed[call.args.session_id]) > MaxRequests
    /\ \E other \in LimiterIds \ {call.args.session_id} : past.allowed[other] # <<>>

\* ---------------------------------------------------------------------- C25

\* The turns of the request's session end with these turns (with as many of
\* them as max_turns leaves room for).
SessionEndsWith(turns) ==
    /\ chat.session_id \in Stored(sessions)
    /\ LET kept == Lookup(sessions, chat.session_id).turns
           n == IF Len(turns) < MaxTurns THEN Len(turns) ELSE MaxTurns
       IN  /\ Len(kept) >= n
           /\ SubSeq(kept, Len(kept) - n + 1, Len(kept))
                  = SubSeq(turns, Len(turns) - n + 1, Len(turns))

\* C25: a request whose extracted intent has follow_up_needed set or is of
\* type clarification ends in a ClarificationResponse that asks the
\* follow-up question (the intent's own when it has one), without a call of
\* the Guard or of an analysis operation, and with the user message and then
\* the question appended to the session.
C25_ClarificationPath ==
    (/\ chat.pc = "done"
     /\ "extract_intent" \in EventSet
     /\ (chat.intent.follow_up_needed \/ chat.intent.intent_type = "clarification")) =>
        /\ chat.response.status = 200
        /\ chat.response.kind = "clarification"
        /\ Len(chat.response.text) = 1
        /\ Truthy(chat.intent.follow_up_question) =>
               chat.response.text[1] = chat.intent.follow_up_question
        /\ EventSet \cap (Operations \cup {"is_metric_computable: True",
                                            "is_metric_computable: False"}) = {}
        /\ chat.added = <<Turn("user", Message),
                          Turn("assistant", chat.response.text[1])>>
        /\ SessionEndsWith(chat.added)

\* A request the rate limiter refused, after the session had used up its
\* requests, has been answered that way.
C25_Witness ==
    /\ chat.pc = "done"
    /\ chat.intent = RateLimited
    /\ chat.response.kind = "clarification"
    /\ chat.response.text = <<RateLimitResponse>>
    /\ Len(chat.added) = 2
    /\ SessionEndsWith(chat.added)

\* ---------------------------------------------------------------------- C26

\* The most recent min(n, max_turns) of the n turns in added, in their order.
MostRecent(added) ==
    IF Len(added) > MaxTurns
    THEN SubSeq(added, Len(added) - MaxTurns + 1, Len(added))
    ELSE added

TurnSet(turns) == {turns[i] : i \in 1..Len(turns)}

\* No turn of a stored session was ever added to another session.
TurnsNotShared ==
    \A i \in 1..Len(sessions) : \A other \in SessionIds \ {sessions[i].session_id} :
        TurnSet(sessions[i].turns) \cap TurnSet(past.ever[other]) = {}

\* C26, as stated: every stored session holds at most max_turns turns, and
\* they are the most recent of all the turns ever added under its id.
C26_LastTurnsEverAdded ==
    /\ \A i \in 1..Len(sessions) :
          /\ Len(sessions[i].turns) <= MaxTurns
          /\ sessions[i].turns = MostRecent(past.ever[sessions[i].session_id])
    /\ TurnsNotShared

\* C26, amended: every stored session holds at most max_turns turns, and
\* they are the most recent of the turns added to it since it was created;
\* a session that was evicted starts again without turns.
C26_LastTurnsSinceCreation ==
    /\ \A i \in 1..Len(sessions) :
          /\ Len(sessions[i].turns) <= MaxTurns
          /\ sessions[i].turns = MostRecent(past.added[sessions[i].session_id])
    /\ TurnsNotShared

\* A session has lost its oldest turn to the trim while another session
\* holds a turn of its own.
C26_Witness ==
    \E i, j \in 1..Len(sessions) :
        /\ Len(past.added[sessions[i].session_id]) > MaxTurns
        /\ sessions[i].turns # <<>>
        /\ i # j
        /\ sessions[j].turns # <<>>

\* ---------------------------------------------------------------------- C27

\* The calls that access a session.
AccessOps == {"get_session", "add_turn", "get_context_string"}

\* The stored ids by their last access, the least recent first.
ByLastAccess(ss) == SelectSeq(past.recency, LAMBDA id : id \in Stored(ss))

\* One call that accessed session_id: it is the most recently used
\* afterwards; when it was new and the store full, the session that left is
\* the one least recently accessed, and otherwise no session left.
AccessStep(session_id) ==
    /\ sessions' # <<>>
    /\ sessions'[Len(sessions')].session_id = session_id
    /\ IF session_id \notin Stored(sessions) /\ Len(sessions) >= MaxSessions
       THEN Stored(sessions) \ Stored(sessions') = {ByLastAccess(sessions)[1]}
       ELSE Stored(sessions) \subseteq Stored(sessions')

\* C27: over get_session, add_turn, get_context_string and clear_session
\* calls the store never holds more than max_sessions sessions, a session
\* created at capacity evicts the least recently accessed one, and every
\* access makes the session the most recently used.
C27_LeastRecentlyAccessedEvicted ==
    [][/\ Len(sessions') <= MaxSessions
       /\ call'.op \in AccessOps => AccessStep(call'.args.session_id)]_vars

\* The last call created a session in a full store and another session
\* left for it.
C27_Witness ==
    /\ call.op \in AccessOps
    /\ Len(sessions) = MaxSessions
    /\ \E id \in past.evicted : id \notin Stored(sessions)

\* ---------------------------------------------------------------------- C28

\* The request went past the Guard to compare_segments.
ComparisonDispatched ==
    /\ chat.pc \in {"explain", "done"}
    /\ call.op = "compare_segments"

\* C28: every comparison intent that passes the Guard reaches
\* compare_segments with two non-empty segment definitions, a compare_with
\* outside android, ios, web included.
C28_TwoNonEmptySegments ==
    ComparisonDispatched =>
        /\ call.args.segment_a # <<>>
        /\ call.args.segment_b # <<>>

\* ---------------------------------------------------------------------- C29

\* The columns a segment definition constrains.
SegmentDims(segment) == {segment[i][1] : i \in 1..Len(segment)}

\* C29: the base filters handed to compare_segments leave alone every
\* column that the two segment definitions constrain, so that the primary
\* device filter cannot empty segment B.
C29_BaseFiltersLeaveSegmentColumns ==
    ComparisonDispatched =>
        \A col \in SegmentDims(call.args.segment_a) \cup SegmentDims(call.args.segment_b) :
            ~Truthy(call.args.filters[col])

\* ---------------------------------------------------------------------- C30

\* The turns the service holds for a session, none when it holds no such
\* session.
TurnsOf(ss, session_id) ==
    IF session_id \in Stored(ss) THEN Lookup(ss, session_id).turns ELSE <<>>

\* The request ended in a successful analysis response or in a follow-up
\* clarification.
Persisting(c) ==
    /\ c.response.status = 200
    /\ \/ c.response.kind = "chat"
       \/ /\ c.response.kind = "clarification"
          /\ c.intent.follow_up_needed \/ c.intent.intent_type = "clarification"

\* What the session is to gain from the request.
GainedBy(c) ==
    IF Persisting(c)
    THEN <<Turn("user", Message), Turn("assistant", c.response.text[1])>>
    ELSE <<>>

\* C30: the step that ends a request leaves the session with the user
\* message and then the reply appended (trimmed to max_turns) when the
\* request ends in a successful analysis response or a follow-up
\* clarification, and with the turns it had when the request ends in a
\* Guard rejection, an unknown-intent clarification, an analysis failure or
\* any other error; the turns of the request are none or these two.
C30_NoTurnOrUserThenReply ==
    [][(chat.pc # "done" /\ chat'.pc = "done") =>
          /\ chat'.added = GainedBy(chat')
          /\ TurnsOf(sessions', chat'.session_id)
                 = MostRecent(TurnsOf(sessions, chat'.session_id) \o GainedBy(chat'))]_vars

\* A request ended in an analysis response, and the session holds the user
\* message and then the explanation.
C30_Witness ==
    /\ chat.pc = "done"
    /\ chat.response.kind = "chat"
    /\ TurnsOf(sessions, chat.session_id)
           = <<Turn("user", Message), Turn("assistant", "answer")>>

====
